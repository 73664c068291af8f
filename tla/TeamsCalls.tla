----------------------------- MODULE TeamsCalls -----------------------------
(***************************************************************************)
(* One Teams call of a page (server/ops/teams-calls.ts): the pager places  *)
(* it, Microsoft reports what becomes of it, in any order and more than    *)
(* once, and an acknowledgement anywhere hangs it up.                      *)
(*                                                                         *)
(* The page is what module Pager makes of it; here it is only triggered or *)
(* acknowledged, by the person who is called or by somebody else.          *)
(***************************************************************************)
EXTENDS Naturals

CONSTANTS
  Handler,     \* requests that handle call events at the same time
  MaxPresses,  \* bound: keys pressed during the call
  MaxFaults    \* bound: requests to Microsoft that fail, and processes that die

Event == {"established", "terminated", "tone1", "tone2"}
Live == {"ringing", "established"}

VARIABLES
  page,      \* the page's status
  ack,       \* acknowledgePage, from the page's status on
  call,      \* the call, at Microsoft
  attempt,   \* status of the notification_attempts row; "none": not there yet
  events,    \* call events that may still arrive
  handler,   \* handleCallingNotifications
  prompted,  \* how often the prompt was started (history)
  late,      \* the page was acknowledged before the attempt's row (history)
  lost,      \* the call has no row to be hung up by, or a hang-up came to nothing (history)
  presses,
  faults

vars == <<page, ack, call, attempt, events, handler, prompted, late, lost, presses, faults>>

Idle == [pc |-> "idle", event |-> "terminated", status |-> "none"]
Status == {"none", "never", "sent", "failed", "answered", "acknowledged", "missed"}

TypeOK ==
  /\ page \in {"triggered", "acknowledged"}
  /\ ack \in [pc : {"none", "mark", "list", "hangup", "done"}, by : {"callee", "other"}]
  /\ call \in {"none", "placing", "over"} \cup Live
  /\ attempt \in Status
  /\ events \subseteq Event
  /\ handler \in [Handler -> [pc : {"idle", "apply", "set", "hangup"}, event : Event, status : Status]]
  /\ prompted \in 0 .. 2 /\ late \in BOOLEAN /\ lost \in BOOLEAN
  /\ presses \in 0 .. MaxPresses /\ faults \in 0 .. MaxFaults

NoRow == attempt \in {"none", "never"}

Init ==
  /\ page = "triggered" /\ ack = [pc |-> "none", by |-> "other"]
  /\ call = "none" /\ attempt = "none" /\ events = {}
  /\ handler = [h \in Handler |-> Idle]
  /\ prompted = 0 /\ late = FALSE /\ lost = FALSE
  /\ presses = 0 /\ faults = 0

Fault == faults < MaxFaults /\ faults' = faults + 1

-----------------------------------------------------------------------------
(* Placing the call. *)

\* processPage looks whether the page is still triggered.
Place ==
  /\ call = "none" /\ page = "triggered"
  /\ call' = "placing"
  /\ UNCHANGED <<page, ack, attempt, events, handler, prompted, late, lost, presses, faults>>

\* placeTeamsCall has Microsoft create the call.
Create ==
  /\ call = "placing"
  /\ call' = "ringing"
  /\ UNCHANGED <<page, ack, attempt, events, handler, prompted, late, lost, presses, faults>>

\* recordAttempt, once Microsoft has answered.
RecordAttempt ==
  /\ call \notin {"none", "placing"} /\ attempt = "none"
  /\ attempt' = "sent"
  /\ late' = (page # "triggered")
  /\ UNCHANGED <<page, ack, call, events, handler, prompted, lost, presses, faults>>

\* The request timed out though the call was created, which is recorded as a
\* failure; or the process dies before it records anything.
LoseAttempt ==
  /\ call \notin {"none", "placing"} /\ attempt = "none" /\ Fault
  /\ attempt' \in {"failed", "never"}
  /\ lost' = TRUE
  /\ UNCHANGED <<page, ack, call, events, handler, prompted, late, presses>>

-----------------------------------------------------------------------------
(* Microsoft, and the person called. *)

Answer ==
  /\ call = "ringing"
  /\ call' = "established"
  /\ events' = events \cup {"established"}
  /\ UNCHANGED <<page, ack, attempt, handler, prompted, late, lost, presses, faults>>

Press(tone) ==
  /\ call = "established" /\ presses < MaxPresses
  /\ presses' = presses + 1
  /\ events' = events \cup {tone}
  /\ UNCHANGED <<page, ack, call, attempt, handler, prompted, late, lost, faults>>

Over == IF call \in Live THEN call' = "over" /\ events' = events \cup {"terminated"}
                         ELSE UNCHANGED <<call, events>>

\* The person hangs up, or does not answer in time.
EndCall ==
  /\ call \in Live
  /\ Over
  /\ UNCHANGED <<page, ack, attempt, handler, prompted, late, lost, presses, faults>>

-----------------------------------------------------------------------------
(* acknowledgePage, in what it does about the call. *)

Acknowledged(by) ==
  IF page = "triggered"
  THEN page' = "acknowledged" /\ ack' = [pc |-> "mark", by |-> by]
  ELSE UNCHANGED <<page, ack>>

\* On the web, by SMS, in a chat.
Acknowledge(by) ==
  /\ page = "triggered"
  /\ Acknowledged(by)
  /\ UNCHANGED <<call, attempt, events, handler, prompted, late, lost, presses, faults>>

\* The acknowledger's latest attempt is marked, which may be the call.
MarkLatest ==
  /\ ack.pc = "mark"
  /\ \E latest \in BOOLEAN :
       attempt' = IF latest /\ ack.by = "callee" /\ ~NoRow THEN "acknowledged" ELSE attempt
  /\ ack' = [ack EXCEPT !.pc = "list"]
  /\ UNCHANGED <<page, call, events, handler, prompted, late, lost, presses, faults>>

\* Mutant: an answered call is left alone.
RingingOnly == attempt = "sent"

\* hangUpCallsForPage, of a call that was recorded within the last half hour, as
\* the one here was.
ToHangUp == attempt \in {"sent", "answered"}

ListCalls ==
  /\ ack.pc = "list"
  /\ ack' = [ack EXCEPT !.pc = IF ToHangUp THEN "hangup" ELSE "done"]
  /\ UNCHANGED <<page, call, attempt, events, handler, prompted, late, lost, presses, faults>>

HangUpForPage ==
  /\ ack.pc = "hangup"
  /\ ack' = [ack EXCEPT !.pc = "done"]
  /\ Over
  /\ UNCHANGED <<page, attempt, handler, prompted, late, lost, presses, faults>>

\* A hang-up that fails is not tried again; or the process dies on the way, for
\* the acknowledgement does not wait for it.
AckFails ==
  /\ ack.pc \in {"mark", "list", "hangup"} /\ Fault
  /\ ack' = [ack EXCEPT !.pc = "done"]
  /\ lost' = TRUE
  /\ UNCHANGED <<page, call, attempt, events, handler, prompted, late, presses>>

-----------------------------------------------------------------------------
(* handleCallingNotifications. *)

Handles(h, event) == handler[h].pc = "apply" /\ handler[h].event = event
Done(h) == handler' = [handler EXCEPT ![h] = Idle]

\* An event is delivered, perhaps not for the last time.  One that comes before
\* the attempt has a row is of no known call.
Receive(h, event) ==
  /\ handler[h].pc = "idle"
  /\ event \in events
  /\ events' \in {events, events \ {event}}
  /\ handler' = IF NoRow THEN handler
                ELSE [handler EXCEPT ![h] = [pc |-> "apply", event |-> event, status |-> attempt]]
  /\ UNCHANGED <<page, ack, call, attempt, prompted, late, lost, presses, faults>>

Terminated(h) ==
  /\ Handles(h, "terminated")
  /\ attempt' = IF handler[h].status = "sent" THEN "missed" ELSE attempt
  /\ Done(h)
  /\ UNCHANGED <<page, ack, call, events, prompted, late, lost, presses, faults>>

\* Mutant: the prompt is played at every "established".
EstablishedAlways(h) ==
  /\ Handles(h, "established")
  /\ attempt' = "answered"
  /\ prompted' = IF prompted < 2 THEN prompted + 1 ELSE 2
  /\ Done(h)
  /\ UNCHANGED <<page, ack, call, events, late, lost, presses, faults>>

\* A first "established" starts the prompt or, without one, ends the call.
Established(h) ==
  /\ Handles(h, "established")
  /\ IF handler[h].status = "sent"
     THEN /\ attempt' = "answered"
          /\ \/ prompted' = prompted + 1 /\ Done(h)
             \/ prompted' = prompted /\ handler' = [handler EXCEPT ![h].pc = "hangup"]
     ELSE Done(h) /\ UNCHANGED <<attempt, prompted>>
  /\ UNCHANGED <<page, ack, call, events, late, lost, presses, faults>>

\* handleTone: 1 acknowledges; 2 escalates (module Pager).
Tone(h) ==
  /\ Handles(h, "tone1") \/ Handles(h, "tone2")
  /\ IF handler[h].event = "tone1" THEN Acknowledged("callee") ELSE UNCHANGED <<page, ack>>
  /\ handler' = [handler EXCEPT ![h].pc = "set"]
  /\ UNCHANGED <<call, attempt, events, prompted, late, lost, presses, faults>>

\* ... and then the attempt says so; an acknowledgement has marked its own first.
SetAttempt(h) ==
  /\ handler[h].pc = "set"
  /\ handler[h].event = "tone1" => ack.pc # "mark"
  /\ attempt' = IF handler[h].event = "tone1" THEN "acknowledged" ELSE "answered"
  /\ handler' = [handler EXCEPT ![h].pc = "hangup"]
  /\ UNCHANGED <<page, ack, call, events, prompted, late, lost, presses, faults>>

HangUp(h) ==
  /\ handler[h].pc = "hangup"
  /\ Over
  /\ Done(h)
  /\ UNCHANGED <<page, ack, attempt, prompted, late, lost, presses, faults>>

\* A handler's hang-up fails, or its process dies.
HandlerFails(h) ==
  /\ handler[h].pc # "idle" /\ Fault
  /\ Done(h)
  /\ lost' = (lost \/ handler[h].pc = "hangup")
  /\ UNCHANGED <<page, ack, call, attempt, events, prompted, late, presses>>

HandlerStep(h) == Terminated(h) \/ Established(h) \/ Tone(h) \/ SetAttempt(h) \/ HangUp(h)
AckStep == MarkLatest \/ ListCalls \/ HangUpForPage

Next ==
  \/ Place \/ Create \/ RecordAttempt \/ LoseAttempt \/ Answer \/ EndCall \/ AckStep \/ AckFails
  \/ \E tone \in {"tone1", "tone2"} : Press(tone)
  \/ \E by \in {"callee", "other"} : Acknowledge(by)
  \/ \E h \in Handler : HandlerStep(h) \/ HandlerFails(h) \/ \E event \in Event : Receive(h, event)

Spec == Init /\ [][Next]_vars

\* What the server has begun it goes on with; nobody need answer or hang up.
Fairness ==
  /\ WF_vars(RecordAttempt) /\ WF_vars(AckStep)
  /\ \A h \in Handler : WF_vars(HandlerStep(h))

FairSpec == Spec /\ Fairness

-----------------------------------------------------------------------------
(* What a call promises. *)

\* "Establishing and established can arrive out of order or twice": the prompt
\* is started once all the same.
PromptOnce == prompted <= 1

\* Once a page is acknowledged by somebody else, the call is hung up: unless it
\* was just being placed, or was recorded as failed or not at all, or the one
\* request that was to hang it up failed or its process died.
OthersStop == page = "acknowledged" /\ ack.by = "other" ~> late \/ lost \/ call \notin Live

\* "Once a page is acknowledged anywhere, stop any Teams call still ringing for
\* it": by the person who is called, too.
RingingStops == page = "acknowledged" ~> late \/ call \notin Live
=============================================================================
