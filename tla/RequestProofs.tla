---------------------------- MODULE RequestProofs ---------------------------
(***************************************************************************)
(* Requests that overlap, on one connection of the database, one call, one *)
(* invite link and one grant; and the passes that share one Gateway.       *)
(*                                                                         *)
(* The SQLite queue: transactions are isolated from the writes outside     *)
(* them, and stored as a whole or not at all, for any number of requests   *)
(* and any bounds.  Only the head of the queue is ever inside a            *)
(* transaction, because what runs stays at the head until it ends.  So     *)
(* when a write has its turn no transaction is open, and a COMMIT finds    *)
(* the writes of one request.                                              *)
(*                                                                         *)
(* A Teams call: with one handler of its events at a time the prompt is    *)
(* played once, however often and in whatever order the events arrive.     *)
(*                                                                         *)
(* The Discord Gateway: the pass of a supervisor that starts a gateway     *)
(* waits for its URL and for nothing else, so it cannot be left waiting    *)
(* by a stop, a lost lease or a failure; only a connection that was        *)
(* greeted goes silent, and none is resumed without a session.             *)
(*                                                                         *)
(* Invites: a single-use link cannot be used twice, for any number of      *)
(* people who try at the same time, again and again.  The counter of the   *)
(* link plays no part in it.  While nobody holds a use the next number is  *)
(* 1, and nobody is told another one while somebody does: every insert is  *)
(* of number 1, which has one holder at most.  Whoever goes on to an       *)
(* account holds it, and keeps it.                                         *)
(*                                                                         *)
(* Grants: a grant withdrawn stays withdrawn, for any number of exchanges  *)
(* under way.  Those may still issue a pair of tokens, even after the      *)
(* withdrawal has gone over them.  But a call reads the grant after its    *)
(* token, and a grant that was revoked is never live again.                *)
(***************************************************************************)
EXTENDS SqliteQueue, SequenceTheorems, FiniteSetTheorems, TLAPS

CONSTANTS
  Handler, MaxPresses, Instance, MaxConfig, MaxFaults, Person, MaxUses, MaxTries, MaxSeq, Client, MaxPairs
VARIABLES
  page, ack, call, attempt, events, handler, prompted, late, lost, presses, failures,
  config, lease, sup, fatal, gw, stray, known, faults,
  active, uses, held, signUp, joined,
  grant, access, refresh, exchange, outcome

Calls == INSTANCE TeamsCalls WITH faults <- failures
Gateways == INSTANCE Gateway WITH holder <- lease
Invites == INSTANCE Invites WITH request <- signUp
Grants == INSTANCE Grants WITH Request <- Client, request <- exchange

Inside(r) == request[r].pc = "inside"

\* What runs is at the head of the queue.
HeadRuns == \A r \in Request : Inside(r) => queue # <<>> /\ Head(queue) = r

\* The connection has a transaction open exactly while a request is in one.
OpenWhileInside == open <=> \E r \in Request : Inside(r)

InsideTransacts == \A r \in Request : Inside(r) => request[r].what = "transaction"

FreshOutside == \A r \in Request : ~Inside(r) => request[r].writes = 0

QueueInv == TypeOK /\ Isolated /\ HeadRuns /\ OpenWhileInside /\ InsideTransacts /\ FreshOutside

-----------------------------------------------------------------------------

\* Appending leaves the head of a queue that is not empty.
LEMMA HeadOfAppend ==
  ASSUME NEW S, NEW s \in Seq(S), NEW e \in S, s # <<>>
  PROVE Append(s, e) # <<>> /\ Head(Append(s, e)) = Head(s)
BY HeadTailProperties, AppendProperties

\* While a request is queued at the head of the queue, nobody is inside a
\* transaction.
LEMMA TurnIsFree ==
  ASSUME QueueInv, NEW r \in Request, NEW what, MyTurn(r, what)
  PROVE ~open /\ \A q \in Request : ~Inside(q)
<1>1. ASSUME NEW q \in Request, Inside(q) PROVE FALSE
  <2>1. q = r
    BY <1>1 DEF QueueInv, HeadRuns, MyTurn
  <2> QED
    BY <2>1, <1>1 DEF MyTurn, Inside
<1> QED
  BY <1>1 DEF QueueInv, OpenWhileInside

\* At most one request is inside a transaction.
LEMMA OneInside ==
  ASSUME QueueInv, NEW r \in Request, Inside(r)
  PROVE open /\ \A q \in Request \ {r} : ~Inside(q) /\ pending[q] = 0
<1>1. ASSUME NEW q \in Request \ {r} PROVE ~Inside(q) /\ pending[q] = 0
  <2>1. ~Inside(q)
    BY DEF QueueInv, HeadRuns
  <2> QED
    BY <2>1 DEF QueueInv, Isolated, Inside
<1> QED
  BY <1>1 DEF QueueInv, OpenWhileInside

-----------------------------------------------------------------------------
(* Each action keeps the invariant. *)

\* A request joins the queue at its end.
LEMMA AskKeeps ==
  ASSUME QueueInv, NEW r \in Request, NEW what \in {"write", "transaction"}, Ask(r, what)
  PROVE QueueInv'
<1> DEFINE to == [Idle EXCEPT !.pc = "queued", !.what = what]
<1>1. /\ request' = [request EXCEPT ![r] = to] /\ request[r].pc = "idle"
      /\ queue' = Append(queue, r) /\ UNCHANGED <<open, pending, stored>>
  BY DEF Ask
<1>2. to \in RequestRecord /\ to.pc = "queued" /\ to.writes = 0
  BY DEF Idle, RequestRecord
<1> HIDE DEF to
<1>3. TypeOK'
  BY <1>1, <1>2, AppendProperties DEF QueueInv, TypeOK
<1>4. \A q \in Request : request'[q] = request[q] \/ (~Inside(q) /\ ~Inside(q)' /\ request'[q].writes = 0)
  BY <1>1, <1>2 DEF QueueInv, TypeOK, Inside
<1>5. Isolated'
  <2> SUFFICES ASSUME NEW q \in Request
               PROVE pending'[q] = IF request'[q].pc = "inside" THEN request'[q].writes ELSE 0
    BY DEF Isolated
  <2>1. pending'[q] = pending[q] /\ pending[q] = IF request[q].pc = "inside" THEN request[q].writes ELSE 0
    BY <1>1 DEF QueueInv, Isolated
  <2> QED
    BY <1>4, <2>1 DEF Inside
<1>6. HeadRuns'
  <2>1. queue \in Seq(Request)
    BY DEF QueueInv, TypeOK
  <2>2. ASSUME NEW q \in Request, Inside(q)' PROVE queue' # <<>> /\ Head(queue') = q
    <3>1. queue # <<>> /\ Head(queue) = q
      BY <2>2, <1>4 DEF QueueInv, HeadRuns, Inside
    <3> QED
      BY <1>1, <2>1, <3>1, HeadOfAppend
  <2> QED
    BY <2>2 DEF HeadRuns
<1>7. OpenWhileInside'
  BY <1>1, <1>4 DEF QueueInv, OpenWhileInside, Inside
<1>8. InsideTransacts' /\ FreshOutside'
  BY <1>4 DEF QueueInv, InsideTransacts, FreshOutside, Inside
<1> QED
  BY <1>3, <1>5, <1>6, <1>7, <1>8 DEF QueueInv

\* A write outside any transaction, when its turn has come.
LEMMA WriteKeeps ==
  ASSUME QueueInv, NEW r \in Request, Write(r)
  PROVE QueueInv'
<1>1. ~open /\ \A q \in Request : ~Inside(q)
  BY TurnIsFree DEF Write
<1>2. stored' = [stored EXCEPT ![r] = @ + 1] /\ pending' = pending
  BY <1>1 DEF Write, Execute
<1>3. request' = [request EXCEPT ![r] = Idle] /\ queue' = Tail(queue) /\ open' = open /\ queue # <<>>
  BY DEF Write, MyTurn
<1>4. TypeOK'
  BY <1>2, <1>3, HeadTailProperties DEF QueueInv, TypeOK, Idle, RequestRecord
<1>5. \A q \in Request : ~Inside(q)'
  BY <1>1, <1>3 DEF QueueInv, TypeOK, Idle, Inside
<1>6. Isolated'
  BY <1>1, <1>2, <1>5 DEF QueueInv, Isolated, Inside
<1>7. FreshOutside'
  BY <1>3 DEF QueueInv, FreshOutside, TypeOK, Idle, Inside
<1> QED
  BY <1>1, <1>3, <1>4, <1>5, <1>6, <1>7 DEF QueueInv, HeadRuns, OpenWhileInside, InsideTransacts

\* BEGIN finds no transaction open.
LEMMA BeginKeeps ==
  ASSUME QueueInv, NEW r \in Request, Begin(r)
  PROVE QueueInv'
<1>1. ~open /\ \A q \in Request : ~Inside(q)
  BY TurnIsFree DEF Begin
<1>2. /\ request[r].what = "transaction" /\ queue # <<>> /\ Head(queue) = r
      /\ open' = TRUE /\ request' = [request EXCEPT ![r].pc = "inside"]
      /\ UNCHANGED <<queue, pending, stored>>
  BY DEF Begin, MyTurn
<1>3. TypeOK'
  BY <1>2 DEF QueueInv, TypeOK, RequestRecord
<1>4. Isolated'
  BY <1>1, <1>2 DEF QueueInv, Isolated, FreshOutside, Inside, TypeOK, RequestRecord
<1> QED
  BY <1>1, <1>2, <1>3, <1>4
  DEF QueueInv, HeadRuns, OpenWhileInside, InsideTransacts, FreshOutside, Inside, TypeOK, RequestRecord

\* The statements of an open transaction, and transactions inside it.
LEMMA InsideKeeps ==
  ASSUME QueueInv, NEW r \in Request, WriteInside(r) \/ Nest(r) \/ Unnest(r)
  PROVE QueueInv'
<1>1. /\ Inside(r) /\ queue' = queue /\ open' = open
      /\ \A q \in Request \ {r} : request'[q] = request[q]
  BY DEF WriteInside, Nest, Unnest, Inside, QueueInv, TypeOK
<1>2. request' \in [Request -> RequestRecord] /\ request'[r].pc = request[r].pc /\ request'[r].what = request[r].what
  <2>1. request \in [Request -> RequestRecord] /\ request[r] \in RequestRecord
    BY DEF QueueInv, TypeOK
  <2>2. CASE WriteInside(r)
    <3> DEFINE to == [request[r] EXCEPT !.writes = @ + 1]
    <3>1. request' = [request EXCEPT ![r] = to]
      BY <2>2 DEF WriteInside
    <3>2. to \in RequestRecord /\ to.pc = request[r].pc /\ to.what = request[r].what
      BY <2>1 DEF RequestRecord
    <3> HIDE DEF to
    <3> QED
      BY <2>1, <3>1, <3>2
  <2>3. CASE Nest(r) \/ Unnest(r)
    <3>1. PICK d \in Nat : request' = [request EXCEPT ![r] = [request[r] EXCEPT !.depth = d]]
      <4>1. request[r].depth \in Nat
        BY <2>1 DEF RequestRecord
      <4> QED
        BY <2>3, <4>1 DEF Nest, Unnest
    <3> DEFINE to == [request[r] EXCEPT !.depth = d]
    <3>2. to \in RequestRecord /\ to.pc = request[r].pc /\ to.what = request[r].what
      BY <2>1 DEF RequestRecord
    <3> HIDE DEF to
    <3> QED
      BY <2>1, <3>1, <3>2 DEF to
  <2> QED
    BY <2>2, <2>3
<1>3. \A q \in Request : (Inside(q)' <=> Inside(q)) /\ request'[q].what = request[q].what
  BY <1>1, <1>2 DEF Inside
<1>4. CASE WriteInside(r)
  <2>1. open
    BY <1>1, OneInside
  <2>2. /\ pending' = [pending EXCEPT ![r] = @ + 1] /\ stored' = stored
        /\ request' = [request EXCEPT ![r].writes = @ + 1]
    BY <1>4, <2>1 DEF WriteInside, Execute
  <2>3. TypeOK'
    BY <1>1, <1>2, <2>2 DEF QueueInv, TypeOK
  <2>4. Isolated' /\ FreshOutside'
    BY <1>1, <2>2 DEF QueueInv, Isolated, FreshOutside, Inside, TypeOK, RequestRecord
  <2> QED
    BY <1>1, <1>3, <2>3, <2>4 DEF QueueInv, HeadRuns, OpenWhileInside, InsideTransacts
<1>5. CASE Nest(r) \/ Unnest(r)
  <2>1. UNCHANGED <<pending, stored>> /\ request'[r].writes = request[r].writes
    BY <1>5 DEF Nest, Unnest, QueueInv, TypeOK, RequestRecord
  <2>2. TypeOK'
    BY <1>1, <1>2, <2>1 DEF QueueInv, TypeOK
  <2>3. Isolated' /\ FreshOutside'
    BY <1>1, <1>2, <2>1 DEF QueueInv, Isolated, FreshOutside, Inside
  <2> QED
    BY <1>1, <1>3, <2>2, <2>3 DEF QueueInv, HeadRuns, OpenWhileInside, InsideTransacts
<1> QED
  BY <1>4, <1>5

\* COMMIT and ROLLBACK empty the connection and let the next one run.
LEMMA EndKeeps ==
  ASSUME QueueInv, NEW r \in Request, Commit(r) \/ Rollback(r)
  PROVE QueueInv'
<1>1. Inside(r) /\ End(r)
  BY DEF Commit, Rollback, End, Inside
<1>2. queue # <<>> /\ Head(queue) = r
  BY <1>1 DEF QueueInv, HeadRuns
<1>3. \A q \in Request : ~Inside(q)'
  BY <1>1, OneInside DEF End, Inside, QueueInv, TypeOK, Idle
<1>4. stored' \in [Request -> Nat]
  BY DEF Commit, Rollback, QueueInv, TypeOK
<1>5. TypeOK'
  BY <1>1, <1>2, <1>4, HeadTailProperties DEF End, Nothing, QueueInv, TypeOK, Idle, RequestRecord
<1>6. Isolated'
  BY <1>1, <1>3 DEF End, Nothing, Isolated, Inside
<1>7. FreshOutside'
  BY <1>1, OneInside DEF QueueInv, FreshOutside, End, Idle, TypeOK, Inside
<1> QED
  BY <1>1, <1>3, <1>5, <1>6, <1>7 DEF QueueInv, End, HeadRuns, OpenWhileInside, InsideTransacts

-----------------------------------------------------------------------------

\* The queue starts empty.
LEMMA InitHolds == Init => QueueInv
<1> SUFFICES ASSUME Init PROVE QueueInv
  OBVIOUS
<1>1. TypeOK
  <2>1. Idle \in RequestRecord
    BY DEF Idle, RequestRecord
  <2>2. queue \in Seq(Request)
    BY EmptySeq DEF Init
  <2>3. request \in [Request -> RequestRecord]
    BY <2>1 DEF Init
  <2> QED
    BY <2>2, <2>3 DEF Init, TypeOK
<1>2. \A r \in Request : request[r].pc = "idle" /\ request[r].writes = 0 /\ pending[r] = 0
  BY DEF Init, Idle
<1> QED
  BY <1>1, <1>2 DEF Init, QueueInv, Isolated, HeadRuns, OpenWhileInside, InsideTransacts, FreshOutside, Inside

\* Every step keeps the invariant.
LEMMA StepKeeps == QueueInv /\ [Next]_vars => QueueInv'
<1> SUFFICES ASSUME QueueInv, [Next]_vars PROVE QueueInv'
  OBVIOUS
<1>1. CASE UNCHANGED vars
  BY <1>1 DEF vars, QueueInv, TypeOK, Isolated, HeadRuns, OpenWhileInside, InsideTransacts, FreshOutside, Inside
<1>2. ASSUME NEW r \in Request, Step(r) PROVE QueueInv'
  BY <1>2, WriteKeeps, BeginKeeps, InsideKeeps, EndKeeps DEF Step
<1>3. ASSUME NEW r \in Request, NEW what \in {"write", "transaction"}, Ask(r, what) PROVE QueueInv'
  BY <1>3, AskKeeps
<1> QED
  BY <1>1, <1>2, <1>3 DEF Next

\* The invariant holds throughout.
LEMMA InvHolds == Spec => []QueueInv
BY InitHolds, StepKeeps, PTL DEF Spec

\* The queue, the requests, the connection and the file keep their types.
THEOREM TypeCorrect == Spec => []TypeOK
<1>1. QueueInv => TypeOK
  BY DEF QueueInv
<1> QED
  BY <1>1, InvHolds, PTL

\* An open transaction holds the writes of the request that runs it and nobody
\* else's (the driver's `exclusive` queue and its async context).
THEOREM IsolationHolds == Spec => []Isolated
<1>1. QueueInv => Isolated
  BY DEF QueueInv
<1> QED
  BY <1>1, InvHolds, PTL

\* What one request has written since its turn came is stored as a whole and by
\* its own last step, whatever the others do (COMMIT and ROLLBACK in
\* `transaction`, the write outside one in `guarded`).
THEOREM WholeWorkHolds == Spec => WholeWork
<1> DEFINE Whole == \A r \in Request : stored'[r] # stored[r] =>
                      /\ request[r].pc # "idle" /\ request'[r].pc = "idle"
                      /\ stored'[r] = stored[r] + IF request[r].what = "write" THEN 1 ELSE request[r].writes
<1>1. QueueInv /\ [Next]_vars => [Whole]_vars
  <2> SUFFICES ASSUME QueueInv, Next PROVE Whole
    BY DEF vars
  <2>1. ASSUME NEW r \in Request, Write(r) PROVE Whole
    <3>1. ~open
      BY <2>1, TurnIsFree DEF Write
    <3>2. stored' = [stored EXCEPT ![r] = @ + 1] /\ request' = [request EXCEPT ![r] = Idle]
          /\ request[r].pc = "queued" /\ request[r].what = "write"
      BY <2>1, <3>1 DEF Write, Execute, MyTurn
    <3> QED
      BY <3>2 DEF QueueInv, TypeOK, Idle
  <2>2. ASSUME NEW r \in Request, Commit(r) PROVE Whole
    <3>1. Inside(r) /\ request' = [request EXCEPT ![r] = Idle] /\ request[r].what = "transaction"
      BY <2>2 DEF Commit, End, Inside, QueueInv, InsideTransacts
    <3>2. pending[r] = request[r].writes /\ \A q \in Request \ {r} : pending[q] = 0
      BY <3>1, OneInside DEF QueueInv, Isolated, Inside
    <3>3. stored' = [q \in Request |-> stored[q] + pending[q]]
      BY <2>2 DEF Commit
    <3> QED
      BY <3>1, <3>2, <3>3 DEF QueueInv, TypeOK, Idle, Inside
  <2>3. ASSUME NEW r \in Request, WriteInside(r) PROVE Whole
    BY <2>3, OneInside DEF WriteInside, Execute, Inside
  <2>4. ASSUME NEW r \in Request, Begin(r) \/ Nest(r) \/ Unnest(r) \/ Rollback(r) PROVE Whole
    BY <2>4 DEF Begin, Nest, Unnest, Rollback
  <2>5. ASSUME NEW r \in Request, NEW what \in {"write", "transaction"}, Ask(r, what) PROVE Whole
    BY <2>5 DEF Ask
  <2> QED
    BY <2>1, <2>2, <2>3, <2>4, <2>5 DEF Next, Step
<1> QED
  BY <1>1, InvHolds, PTL DEF Spec, WholeWork

-----------------------------------------------------------------------------
(* Teams calls. *)

Handling == [pc : {"idle", "apply", "set", "hangup"}, event : Calls!Event, status : Calls!Status]

\* Call events are handled one at a time.
OneHandler == \A g, h \in Handler : g = h

\* After the prompt the attempt is past "sent" for good, so an event that found
\* it there came before the prompt.
PromptInv ==
  /\ attempt \in Calls!Status
  /\ handler \in [Handler -> Handling]
  /\ prompted \in {0, 1}
  /\ prompted = 1 => attempt \notin {"none", "sent"}
  /\ \A h \in Handler : handler[h].pc = "apply" /\ handler[h].status = "sent" => prompted = 0

LEMMA InitPrompt == Calls!Init => PromptInv
BY DEF Calls!Init, Calls!Idle, Calls!Event, PromptInv, Calls!Status, Handling

\* An attempt that moves, but not back to "sent", and nothing else.
LEMMA AttemptMoves ==
  ASSUME PromptInv, attempt' \in Calls!Status, attempt' \in {"none", "sent"} => attempt \in {"none", "sent"},
         UNCHANGED <<handler, prompted>>
  PROVE  PromptInv'
BY DEF PromptInv

\* The handler of an event, which takes up none that was read as unanswered.
LEMMA HandlerMoves ==
  ASSUME OneHandler, PromptInv, NEW h \in Handler, NEW e \in Handling,
         e.pc = "apply" /\ e.status = "sent" => prompted' = 0,
         attempt' \in Calls!Status, attempt' \in {"none", "sent"} => attempt \in {"none", "sent"},
         prompted' = prompted \/ (prompted = 0 /\ prompted' = 1 /\ attempt' \notin {"none", "sent"}),
         handler' = [handler EXCEPT ![h] = e]
  PROVE  PromptInv'
<1>1. handler' \in [Handler -> Handling] /\ \A g \in Handler : handler'[g] = e
  BY DEF PromptInv, OneHandler
<1> QED
  BY <1>1 DEF PromptInv

LEMMA GoingOn ==
  ASSUME PromptInv, NEW h \in Handler, NEW pc \in {"set", "hangup"}
  PROVE  /\ [handler[h] EXCEPT !.pc = pc] \in Handling
         /\ [handler[h] EXCEPT !.pc = pc].pc = pc
         /\ [handler EXCEPT ![h].pc = pc] = [handler EXCEPT ![h] = [handler[h] EXCEPT !.pc = pc]]
         /\ Calls!Idle \in Handling /\ Calls!Idle.pc = "idle"
<1>1. handler[h] \in Handling
  BY DEF PromptInv
<1>2. Calls!Idle \in Handling /\ Calls!Idle.pc = "idle"
  BY DEF Calls!Idle, Calls!Event, Handling, Calls!Status
<1>3. [handler EXCEPT ![h].pc = pc] = [handler EXCEPT ![h] = [handler[h] EXCEPT !.pc = pc]]
  BY DEF PromptInv
<1> QED
  BY <1>1, <1>2, <1>3 DEF Handling

LEMMA ReceivePrompt ==
  ASSUME OneHandler, PromptInv, NEW h \in Handler, NEW event \in Calls!Event, Calls!Receive(h, event)
  PROVE  PromptInv'
<1>1. UNCHANGED <<attempt, prompted>> /\ attempt \in Calls!Status
  BY DEF Calls!Receive, PromptInv
<1>2. CASE Calls!NoRow
  BY <1>1, <1>2, AttemptMoves DEF Calls!Receive
<1>3. CASE ~Calls!NoRow
  <2>1. PICK e : e = [pc |-> "apply", event |-> event, status |-> attempt]
    OBVIOUS
  <2>2. e \in Handling /\ e.status = attempt
    BY <1>1, <2>1 DEF Handling
  <2>3. handler' = [handler EXCEPT ![h] = e]
    BY <1>3, <2>1 DEF Calls!Receive
  <2>4. e.status = "sent" => prompted = 0
    BY <2>2 DEF PromptInv
  <2> QED
    BY <1>1, <2>2, <2>3, <2>4, HandlerMoves
<1> QED
  BY <1>2, <1>3

LEMMA EstablishedPrompt ==
  ASSUME OneHandler, PromptInv, NEW h \in Handler, Calls!Established(h)
  PROVE  PromptInv'
<1>1. handler[h].pc = "apply" /\ attempt \in Calls!Status
  BY DEF Calls!Established, Calls!Handles, PromptInv
<1>2. PICK on : on = [handler[h] EXCEPT !.pc = "hangup"]
  OBVIOUS
<1>3. /\ on \in Handling /\ on.pc = "hangup"
      /\ [handler EXCEPT ![h].pc = "hangup"] = [handler EXCEPT ![h] = on]
      /\ Calls!Idle \in Handling /\ Calls!Idle.pc = "idle"
  BY <1>2, GoingOn
<1>4. CASE handler[h].status = "sent"
  <2>1. prompted = 0
    BY <1>1, <1>4 DEF PromptInv
  <2>2. attempt' = "answered" /\ attempt' \in Calls!Status
    BY <1>4 DEF Calls!Established, Calls!Status
  <2>3. CASE prompted' = prompted + 1 /\ Calls!Done(h)
    <3>1. prompted' = 1
      BY <2>1, <2>3
    <3> QED
      BY <1>3, <2>1, <2>2, <2>3, <3>1, HandlerMoves DEF Calls!Done
  <2>4. CASE prompted' = prompted /\ handler' = [handler EXCEPT ![h].pc = "hangup"]
    BY <1>3, <2>2, <2>4, HandlerMoves
  <2> QED
    BY <1>4, <2>3, <2>4 DEF Calls!Established
<1>5. CASE handler[h].status # "sent"
  <2>1. UNCHANGED <<attempt, prompted>> /\ Calls!Done(h)
    BY <1>5 DEF Calls!Established
  <2> QED
    BY <1>1, <1>3, <2>1, HandlerMoves DEF Calls!Done
<1> QED
  BY <1>4, <1>5

LEMMA HandlerPrompt ==
  ASSUME OneHandler, PromptInv, NEW h \in Handler,
         Calls!Terminated(h) \/ Calls!Tone(h) \/ Calls!SetAttempt(h) \/ Calls!HangUp(h)
  PROVE  PromptInv'
<1>1. attempt \in Calls!Status
  BY DEF PromptInv
<1>2. /\ Calls!Idle \in Handling /\ Calls!Idle.pc = "idle"
      /\ \A pc \in {"set", "hangup"} : \E e \in Handling :
           e.pc = pc /\ [handler EXCEPT ![h].pc = pc] = [handler EXCEPT ![h] = e]
  BY GoingOn
<1>3. CASE Calls!Terminated(h)
  <2>1. attempt' = "missed" \/ attempt' = attempt
    BY <1>3 DEF Calls!Terminated
  <2> QED
    BY <1>1, <1>2, <1>3, <2>1, HandlerMoves DEF Calls!Terminated, Calls!Done, Calls!Status
<1>4. CASE Calls!Tone(h)
  <2>1. PICK e \in Handling : e.pc = "set" /\ handler' = [handler EXCEPT ![h] = e]
    BY <1>2, <1>4 DEF Calls!Tone
  <2> QED
    BY <1>1, <1>4, <2>1, HandlerMoves DEF Calls!Tone
<1>5. CASE Calls!SetAttempt(h)
  <2>1. PICK e \in Handling : e.pc = "hangup" /\ handler' = [handler EXCEPT ![h] = e]
    BY <1>2, <1>5 DEF Calls!SetAttempt
  <2>2. attempt' \in {"acknowledged", "answered"} /\ prompted' = prompted
    BY <1>5 DEF Calls!SetAttempt
  <2> QED
    BY <2>1, <2>2, HandlerMoves DEF Calls!Status
<1>6. CASE Calls!HangUp(h)
  BY <1>1, <1>2, <1>6, HandlerMoves DEF Calls!HangUp, Calls!Done
<1> QED
  BY <1>3, <1>4, <1>5, <1>6

LEMMA NextPrompt == OneHandler /\ PromptInv /\ [Calls!Next]_(Calls!vars) => PromptInv'
<1> SUFFICES ASSUME OneHandler, PromptInv, [Calls!Next]_(Calls!vars) PROVE PromptInv'
  OBVIOUS
<1>1. attempt \in Calls!Status
  BY DEF PromptInv
<1>2. CASE Calls!RecordAttempt
  BY <1>2, AttemptMoves DEF Calls!RecordAttempt, Calls!Status
<1>3. CASE Calls!MarkLatest
  BY <1>1, <1>3, AttemptMoves DEF Calls!MarkLatest, Calls!Status
<1>4. ASSUME UNCHANGED <<attempt, handler, prompted>> PROVE PromptInv'
  BY <1>1, <1>4, AttemptMoves
<1>5. CASE \/ Calls!Place \/ Calls!Create \/ Calls!Answer \/ Calls!EndCall
           \/ Calls!ListCalls \/ Calls!HangUpForPage \/ Calls!AckFails
  BY <1>4, <1>5 DEF Calls!Place, Calls!Create, Calls!Answer, Calls!EndCall, Calls!ListCalls, Calls!HangUpForPage,
                    Calls!AckFails
<1>6. ASSUME NEW tone \in {"tone1", "tone2"}, Calls!Press(tone) PROVE PromptInv'
  BY <1>4, <1>6 DEF Calls!Press
<1>7. ASSUME NEW by \in {"callee", "other"}, Calls!Acknowledge(by) PROVE PromptInv'
  BY <1>4, <1>7 DEF Calls!Acknowledge
<1>8. ASSUME NEW h \in Handler, Calls!HandlerStep(h) PROVE PromptInv'
  BY <1>8, EstablishedPrompt, HandlerPrompt DEF Calls!HandlerStep
<1>9. ASSUME NEW h \in Handler, NEW event \in Calls!Event, Calls!Receive(h, event) PROVE PromptInv'
  BY <1>9, ReceivePrompt
<1>10. CASE UNCHANGED Calls!vars
  BY <1>4, <1>10 DEF Calls!vars
<1>11. CASE Calls!LoseAttempt
  BY <1>11, AttemptMoves DEF Calls!LoseAttempt, Calls!Status
<1>12. ASSUME NEW h \in Handler, Calls!HandlerFails(h) PROVE PromptInv'
  <2>1. Calls!Idle \in Handling /\ Calls!Idle.pc = "idle"
    BY GoingOn
  <2> QED
    BY <1>1, <1>12, <2>1, HandlerMoves DEF Calls!HandlerFails, Calls!Done
<1> QED
  BY <1>2, <1>3, <1>5, <1>6, <1>7, <1>8, <1>9, <1>10, <1>11, <1>12 DEF Calls!Next, Calls!AckStep

\* "Establishing and established can arrive out of order or twice", and
\* acknowledgements and hang-ups come in between: the prompt is started once.
THEOREM OnePrompt == OneHandler /\ Calls!Spec => []Calls!PromptOnce
<1> SUFFICES ASSUME OneHandler PROVE Calls!Spec => []Calls!PromptOnce
  OBVIOUS
<1>1. Calls!Spec => []PromptInv
  BY InitPrompt, NextPrompt, PTL DEF Calls!Spec
<1>2. PromptInv => Calls!PromptOnce
  BY DEF PromptInv, Calls!PromptOnce
<1> QED
  BY <1>1, <1>2, PTL

\* There is room for a number of keys, and of faults.
PressesCounted == MaxPresses \in Nat /\ MaxFaults \in Nat

\* The types of a call, those of its handlers and its prompt in PromptInv.
CallInv ==
  /\ PromptInv
  /\ page \in {"triggered", "acknowledged"}
  /\ ack \in [pc : {"none", "mark", "list", "hangup", "done"}, by : {"callee", "other"}]
  /\ call \in {"none", "placing", "over"} \cup Calls!Live
  /\ events \subseteq Calls!Event
  /\ late \in BOOLEAN /\ lost \in BOOLEAN
  /\ presses \in 0 .. MaxPresses /\ failures \in 0 .. MaxFaults

LEMMA AcknowledgedTyped ==
  ASSUME CallInv, NEW by \in {"callee", "other"}, Calls!Acknowledged(by)
  PROVE  /\ page' \in {"triggered", "acknowledged"}
         /\ ack' \in [pc : {"none", "mark", "list", "hangup", "done"}, by : {"callee", "other"}]
<1>1. CASE page = "triggered"
  BY <1>1 DEF Calls!Acknowledged
<1>2. CASE page # "triggered"
  BY <1>2 DEF Calls!Acknowledged, CallInv
<1> QED
  BY <1>1, <1>2

LEMMA FailureTyped == ASSUME PressesCounted, CallInv, Calls!Fault PROVE failures' \in 0 .. MaxFaults
BY DEF Calls!Fault, PressesCounted, CallInv

LEMMA OverTyped ==
  ASSUME CallInv, Calls!Over
  PROVE  call' \in {"none", "placing", "over"} \cup Calls!Live /\ events' \subseteq Calls!Event
<1>1. CASE call \in Calls!Live
  BY <1>1 DEF Calls!Over, CallInv, Calls!Event
<1>2. CASE call \notin Calls!Live
  BY <1>2 DEF Calls!Over, CallInv
<1> QED
  BY <1>1, <1>2

LEMMA NextCall == OneHandler /\ PressesCounted /\ CallInv /\ [Calls!Next]_(Calls!vars) => CallInv'
<1> SUFFICES ASSUME OneHandler, PressesCounted, CallInv, [Calls!Next]_(Calls!vars) PROVE CallInv'
  OBVIOUS
<1>0. PromptInv'
  BY NextPrompt DEF CallInv
<1>1. CASE Calls!Place \/ Calls!Create \/ Calls!Answer \/ Calls!RecordAttempt
  BY <1>0, <1>1 DEF Calls!Place, Calls!Create, Calls!Answer, Calls!RecordAttempt, CallInv, Calls!Live, Calls!Event
<1>2. CASE Calls!EndCall \/ Calls!HangUpForPage
  BY <1>0, <1>2, OverTyped DEF Calls!EndCall, Calls!HangUpForPage, CallInv
<1>3. CASE Calls!MarkLatest \/ Calls!ListCalls
  BY <1>0, <1>3 DEF Calls!MarkLatest, Calls!ListCalls, CallInv
<1>4. ASSUME NEW tone \in {"tone1", "tone2"}, Calls!Press(tone) PROVE CallInv'
  <2>1. presses' \in 0 .. MaxPresses
    BY <1>4 DEF Calls!Press, CallInv, PressesCounted
  <2> QED
    BY <1>0, <1>4, <2>1 DEF Calls!Press, CallInv, Calls!Event
<1>5. ASSUME NEW by \in {"callee", "other"}, Calls!Acknowledge(by) PROVE CallInv'
  BY <1>0, <1>5, AcknowledgedTyped DEF Calls!Acknowledge, CallInv
<1>6. ASSUME NEW h \in Handler, Calls!HandlerStep(h) PROVE CallInv'
  <2>1. CASE Calls!Terminated(h) \/ Calls!Established(h) \/ Calls!SetAttempt(h)
    BY <1>0, <2>1 DEF Calls!Terminated, Calls!Established, Calls!SetAttempt, CallInv
  <2>2. CASE Calls!Tone(h)
    <3>1. Calls!Acknowledged("callee") \/ UNCHANGED <<page, ack>>
      BY <2>2 DEF Calls!Tone
    <3>2. UNCHANGED <<call, events, late, lost, presses, failures>>
      BY <2>2 DEF Calls!Tone
    <3> QED
      BY <1>0, <3>1, <3>2, AcknowledgedTyped DEF CallInv
  <2>3. CASE Calls!HangUp(h)
    BY <1>0, <2>3, OverTyped DEF Calls!HangUp, CallInv
  <2> QED
    BY <1>6, <2>1, <2>2, <2>3 DEF Calls!HandlerStep
<1>7. ASSUME NEW h \in Handler, NEW event \in Calls!Event, Calls!Receive(h, event) PROVE CallInv'
  BY <1>0, <1>7 DEF Calls!Receive, CallInv
<1>8. CASE UNCHANGED Calls!vars
  BY <1>0, <1>8 DEF Calls!vars, CallInv
<1>9. CASE Calls!LoseAttempt \/ Calls!AckFails \/ \E h \in Handler : Calls!HandlerFails(h)
  <2>1. failures' \in 0 .. MaxFaults
    BY <1>9, FailureTyped DEF Calls!LoseAttempt, Calls!AckFails, Calls!HandlerFails
  <2>2. lost' \in BOOLEAN
    BY <1>9 DEF Calls!LoseAttempt, Calls!AckFails, Calls!HandlerFails, CallInv
  <2>3. /\ ack' \in [pc : {"none", "mark", "list", "hangup", "done"}, by : {"callee", "other"}]
        /\ UNCHANGED <<page, call, events, late, presses>>
    BY <1>9 DEF Calls!LoseAttempt, Calls!AckFails, Calls!HandlerFails, CallInv
  <2> QED
    BY <1>0, <2>1, <2>2, <2>3 DEF CallInv
<1> QED
  BY <1>1, <1>2, <1>3, <1>4, <1>5, <1>6, <1>7, <1>8, <1>9 DEF Calls!Next, Calls!AckStep

\* Every call is well typed, whatever events come and however the page is
\* acknowledged (server/ops/teams-calls.ts).
THEOREM CallsTyped == OneHandler /\ PressesCounted /\ Calls!Spec => []Calls!TypeOK
<1> SUFFICES ASSUME OneHandler, PressesCounted PROVE Calls!Spec => []Calls!TypeOK
  OBVIOUS
<1>1. Calls!Init => CallInv
  <2> SUFFICES ASSUME Calls!Init PROVE CallInv
    OBVIOUS
  <2>1. presses \in 0 .. MaxPresses
    BY DEF Calls!Init, PressesCounted
  <2>2. late \in BOOLEAN /\ lost \in BOOLEAN /\ events \subseteq Calls!Event
    BY DEF Calls!Init
  <2>4. failures \in 0 .. MaxFaults
    BY DEF Calls!Init, PressesCounted
  <2>3. /\ page \in {"triggered", "acknowledged"}
        /\ ack \in [pc : {"none", "mark", "list", "hangup", "done"}, by : {"callee", "other"}]
        /\ call \in {"none", "placing", "over"} \cup Calls!Live
    BY DEF Calls!Init
  <2> QED
    BY <2>1, <2>2, <2>3, <2>4, InitPrompt DEF CallInv
<1>2. CallInv => Calls!TypeOK
  <2> SUFFICES ASSUME CallInv PROVE Calls!TypeOK
    OBVIOUS
  <2>1. prompted \in 0 .. 2
    BY DEF CallInv, PromptInv
  <2> QED
    BY <2>1 DEF CallInv, PromptInv, Calls!TypeOK, Calls!Status, Handling
<1> QED
  BY <1>1, <1>2, NextCall, PTL DEF Calls!Spec

-----------------------------------------------------------------------------
(* The Discord Gateway. *)

\* The types of a supervisor and of its connection.
Supervisor == [pc : {"idle", "lease", "start"}, config : Gateways!Config]
Connection ==
  [stage : Gateways!Stage, config : Gateways!Config, resume : BOOLEAN, session : BOOLEAN, url : BOOLEAN,
   silent : BOOLEAN]

\* A configuration to begin with, and room for a number of faults.
GatewaysCounted == MaxConfig \in Nat \ {0} /\ MaxFaults \in Nat

\* A pass that started a gateway waits for its URL, and for nothing else; only a
\* connection that was greeted can have gone silent; and what is resumed is a
\* session.
Sensible(i) ==
  /\ sup[i].pc = "start" => gw[i].stage = "fetching"
  /\ gw[i].silent => gw[i].stage \in {"greeted", "ready"}
  /\ gw[i].stage = "ready" \/ (gw[i].stage = "greeted" /\ gw[i].resume) => gw[i].session

GatewayInv == Gateways!TypeOK /\ \A i \in Instance : Sensible(i)

\* A gateway that is off has the types of one.
LEMMA OffTyped ==
  ASSUME GatewaysCounted
  PROVE  0 \in Gateways!Config /\ 1 \in Gateways!Config /\ Gateways!Off \in Connection
<1>1. 0 \in Gateways!Config /\ 1 \in Gateways!Config
  BY DEF GatewaysCounted, Gateways!Config
<1> QED
  BY <1>1 DEF Gateways!Off, Connection, Gateways!Stage

\* Another connection of one instance, and nothing else but faults.
LEMMA ChangeKeeps ==
  ASSUME GatewayInv, NEW i \in Instance, NEW to \in Connection,
         gw' = [gw EXCEPT ![i] = to],
         sup' = sup \/ sup' = [sup EXCEPT ![i].pc = "idle"],
         to.silent => to.stage \in {"greeted", "ready"},
         to.stage = "ready" \/ (to.stage = "greeted" /\ to.resume) => to.session,
         sup'[i].pc = "start" => to.stage = "fetching",
         config' = config, lease' = lease,
         fatal' \in [Instance -> Gateways!Config],
         stray' \in [Instance -> {"none", "fetching", "open"}],
         known' \in [Instance -> BOOLEAN],
         faults' \in 0 .. MaxFaults
  PROVE  GatewayInv'
<1>1. gw \in [Instance -> Connection] /\ sup \in [Instance -> Supervisor]
  BY DEF GatewayInv, Gateways!TypeOK, Connection, Supervisor
<1>2. gw' \in [Instance -> Connection] /\ sup' \in [Instance -> Supervisor]
  BY <1>1 DEF Supervisor
<1>3. \A k \in Instance : Sensible(k)'
  <2> SUFFICES ASSUME NEW k \in Instance PROVE Sensible(k)'
    OBVIOUS
  <2>1. CASE k = i
    BY <1>1, <2>1 DEF Sensible
  <2>2. CASE k # i
    <3>1. gw'[k] = gw[k] /\ sup'[k] = sup[k]
      BY <1>1, <2>2
    <3> QED
      BY <3>1 DEF GatewayInv, Sensible
  <2> QED
    BY <2>1, <2>2
<1>4. Gateways!TypeOK'
  BY <1>2 DEF GatewayInv, Gateways!TypeOK, Connection, Supervisor
<1> QED
  BY <1>3, <1>4 DEF GatewayInv

\* A fault is counted.
LEMMA FaultTyped == ASSUME GatewaysCounted, GatewayInv, Gateways!Fault PROVE faults' \in 0 .. MaxFaults
BY DEF Gateways!Fault, GatewaysCounted, GatewayInv, Gateways!TypeOK

\* A connection that waits is sensible.
LEMMA WaitingTyped ==
  ASSUME GatewayInv, NEW i \in Instance, NEW resume \in BOOLEAN
  PROVE  /\ Gateways!Waiting(i, resume) \in Connection
         /\ Gateways!Waiting(i, resume).stage = "waiting"
         /\ Gateways!Waiting(i, resume).silent = FALSE
         /\ \A session \in BOOLEAN :
              LET to == [Gateways!Waiting(i, resume) EXCEPT !.session = session]
              IN to \in Connection /\ to.stage = "waiting" /\ to.silent = FALSE
<1>1. gw[i] \in Connection
  BY DEF GatewayInv, Gateways!TypeOK, Connection
<1> QED
  BY <1>1 DEF Gateways!Waiting, Connection, Gateways!Stage

\* A pass reads the configuration, and may stop the gateway.
LEMMA SuperviseKeeps ==
  ASSUME GatewaysCounted, GatewayInv, NEW i \in Instance, NEW saved \in BOOLEAN, Gateways!Supervise(i, saved)
  PROVE  GatewayInv'
<1>0. /\ gw \in [Instance -> Connection] /\ sup \in [Instance -> Supervisor] /\ config \in Gateways!Config
      /\ fatal \in [Instance -> Gateways!Config] /\ stray \in [Instance -> {"none", "fetching", "open"}]
  BY DEF GatewayInv, Gateways!TypeOK, Connection, Supervisor
<1>1. fatal' \in [Instance -> Gateways!Config]
  BY <1>0, OffTyped DEF Gateways!Supervise
<1>2. PICK wanted \in BOOLEAN :
        /\ sup' = [sup EXCEPT ![i] = [pc |-> IF wanted THEN "lease" ELSE "idle", config |-> config]]
        /\ Gateways!Stop(i) \/ UNCHANGED <<gw, stray>>
  BY DEF Gateways!Supervise
<1>3. sup' \in [Instance -> Supervisor] /\ sup'[i].pc # "start"
  BY <1>0, <1>2 DEF Supervisor
<1>4. \A k \in Instance : k # i => sup'[k] = sup[k]
  BY <1>0, <1>2
<1>5. /\ gw' \in [Instance -> Connection] /\ stray' \in [Instance -> {"none", "fetching", "open"}]
      /\ \A k \in Instance : k # i => gw'[k] = gw[k]
      /\ gw'[i] = gw[i] \/ gw'[i] = Gateways!Off
  <2>1. CASE Gateways!Stop(i)
    BY <1>0, <2>1, OffTyped DEF Gateways!Stop
  <2>2. CASE UNCHANGED <<gw, stray>>
    BY <1>0, <2>2
  <2> QED
    BY <1>2, <2>1, <2>2
<1>6. ASSUME NEW k \in Instance PROVE Sensible(k)'
  <2>1. CASE k = i
    BY <1>3, <1>5, <2>1 DEF GatewayInv, Sensible, Gateways!Off
  <2>2. CASE k # i
    BY <1>4, <1>5, <2>2 DEF GatewayInv, Sensible
  <2> QED
    BY <2>1, <2>2
<1>7. UNCHANGED <<config, lease, known, faults>>
  BY DEF Gateways!Supervise
<1>8. Gateways!TypeOK'
  BY <1>1, <1>3, <1>5, <1>7 DEF GatewayInv, Gateways!TypeOK, Connection, Supervisor
<1> QED
  BY <1>6, <1>8 DEF GatewayInv

\* It goes on with the lease: a gateway that is started has no URL yet.
LEMMA LeaseKeeps ==
  ASSUME GatewaysCounted, GatewayInv, NEW i \in Instance, Gateways!Lease(i)
  PROVE  GatewayInv'
<1>0. /\ gw \in [Instance -> Connection] /\ sup \in [Instance -> Supervisor]
      /\ stray \in [Instance -> {"none", "fetching", "open"}] /\ lease \in SUBSET Instance
      /\ sup[i].config \in Gateways!Config
  BY DEF GatewayInv, Gateways!TypeOK, Connection, Supervisor
<1>1. UNCHANGED <<config, fatal, known, faults>> /\ sup[i].pc = "lease"
  BY DEF Gateways!Lease
<1>2. lease' \in SUBSET Instance
  BY <1>0 DEF Gateways!Lease
<1>3. PICK pc \in {"idle", "start"} :
        /\ sup' = [sup EXCEPT ![i].pc = pc]
        /\ \/ gw' = gw /\ pc = "idle" /\ stray' = stray
           \/ gw' = [gw EXCEPT ![i] = [Gateways!Off EXCEPT !.stage = "fetching", !.config = sup[i].config]] /\ stray' = stray
           \/ Gateways!Stop(i) /\ pc = "idle"
  <2>1. CASE lease \subseteq {i}
    <3>1. Gateways!StartUnlessRunning(i) /\ stray' = stray
      BY <2>1 DEF Gateways!Lease
    <3>2. CASE Gateways!At(i, "off")
      BY <3>1, <3>2 DEF Gateways!StartUnlessRunning
    <3>3. CASE ~Gateways!At(i, "off")
      BY <3>1, <3>3 DEF Gateways!StartUnlessRunning
    <3> QED
      BY <3>2, <3>3
  <2>2. CASE ~(lease \subseteq {i})
    BY <2>2 DEF Gateways!Lease
  <2> QED
    BY <2>1, <2>2
<1>4. sup' \in [Instance -> Supervisor] /\ sup'[i].pc = pc /\ \A k \in Instance : k # i => sup'[k] = sup[k]
  BY <1>0, <1>3 DEF Supervisor
<1>5. PICK to \in Connection :
        /\ to = gw[i] \/ (~to.silent /\ to.stage \in {"off", "fetching"})
        /\ pc = "start" => to.stage = "fetching"
        /\ gw' = [gw EXCEPT ![i] = to] /\ stray' \in [Instance -> {"none", "fetching", "open"}]
  <2>1. CASE gw' = gw /\ pc = "idle" /\ stray' = stray
    <3>1. PICK to : to = gw[i]
      OBVIOUS
    <3>2. to \in Connection /\ gw' = [gw EXCEPT ![i] = to]
      BY <1>0, <2>1, <3>1
    <3>3. pc # "start" /\ stray' \in [Instance -> {"none", "fetching", "open"}]
      BY <1>0, <2>1
    <3> QED
      BY <3>1, <3>2, <3>3
  <2>2. CASE gw' = [gw EXCEPT ![i] = [Gateways!Off EXCEPT !.stage = "fetching", !.config = sup[i].config]] /\ stray' = stray
    <3>1. PICK to : to = [Gateways!Off EXCEPT !.stage = "fetching", !.config = sup[i].config]
      OBVIOUS
    <3>2. to \in Connection /\ to.stage = "fetching" /\ to.silent = FALSE
      BY <1>0, <3>1 DEF Gateways!Off, Connection, Gateways!Stage
    <3> QED
      BY <1>0, <2>2, <3>1, <3>2
  <2>3. CASE Gateways!Stop(i) /\ pc = "idle"
    <3>1. Gateways!Off \in Connection /\ ~Gateways!Off.silent /\ Gateways!Off.stage = "off"
      BY OffTyped DEF Gateways!Off
    <3> QED
      BY <1>0, <2>3, <3>1 DEF Gateways!Stop
  <2> QED
    BY <1>3, <2>1, <2>2, <2>3
<1>6. gw' \in [Instance -> Connection] /\ gw'[i] = to /\ \A k \in Instance : k # i => gw'[k] = gw[k]
  BY <1>0, <1>5
<1>7. ASSUME NEW k \in Instance PROVE Sensible(k)'
  <2>1. CASE k = i
    BY <1>4, <1>5, <1>6, <2>1 DEF GatewayInv, Sensible
  <2>2. CASE k # i
    BY <1>4, <1>6, <2>2 DEF GatewayInv, Sensible
  <2> QED
    BY <2>1, <2>2
<1>8. Gateways!TypeOK'
  BY <1>1, <1>2, <1>4, <1>5, <1>6 DEF GatewayInv, Gateways!TypeOK, Connection, Supervisor
<1> QED
  BY <1>7, <1>8 DEF GatewayInv

\* One gateway: what it does, and what is done to it.
LEMMA ConnectionKeeps ==
  ASSUME GatewaysCounted, GatewayInv, NEW i \in Instance,
         \/ Gateways!GatewayStep(i) \/ Gateways!FetchFails(i) \/ Gateways!ReconnectAsked(i) \/ Gateways!GoSilent(i)
         \/ Gateways!Close(i) \/ Gateways!CloseFatal(i)
  PROVE  GatewayInv'
<1>0. /\ gw[i] \in Connection /\ Sensible(i) /\ sup \in [Instance -> Supervisor]
      /\ fatal \in [Instance -> Gateways!Config] /\ stray \in [Instance -> {"none", "fetching", "open"}]
      /\ known \in [Instance -> BOOLEAN] /\ faults \in 0 .. MaxFaults
      /\ gw \in [Instance -> Connection]
  BY DEF GatewayInv, Gateways!TypeOK, Connection, Supervisor
<1>1. ASSUME Gateways!Passed(i)
      PROVE  (sup' = sup \/ sup' = [sup EXCEPT ![i].pc = "idle"]) /\ sup'[i].pc # "start"
  <2>1. CASE sup[i].pc = "start"
    BY <1>0, <1>1, <2>1 DEF Gateways!Passed, Supervisor
  <2>2. CASE sup[i].pc # "start"
    <3>1. sup' = sup
      BY <1>0, <1>1, <2>2 DEF Gateways!Passed, Supervisor
    <3> QED
      BY <2>2, <3>1
  <2> QED
    BY <2>1, <2>2
<1>2. ASSUME NEW to \in Connection, Gateways!Change(i, to), sup[i].pc # "start",
             to.silent => to.stage \in {"greeted", "ready"},
             to.stage = "ready" \/ (to.stage = "greeted" /\ to.resume) => to.session,
             known' \in [Instance -> BOOLEAN], faults' \in 0 .. MaxFaults
      PROVE  GatewayInv'
  BY <1>0, <1>2, ChangeKeeps DEF Gateways!Change
<1>3. gw[i].stage # "fetching" => sup[i].pc # "start"
  BY <1>0 DEF Sensible
<1>4. CASE Gateways!Open(i)
  <2>1. PICK to : to = [gw[i] EXCEPT !.stage = IF gw[i].resume /\ gw[i].url THEN "connecting" ELSE "fetching"]
    OBVIOUS
  <2>2. to \in Connection /\ to.stage \in {"connecting", "fetching"} /\ ~to.silent
    BY <1>0, <1>4, <2>1 DEF Gateways!Open, Gateways!At, Sensible, Connection, Gateways!Stage
  <2> QED
    BY <1>0, <1>2, <1>3, <1>4, <2>1, <2>2 DEF Gateways!Open, Gateways!At
<1>5. CASE Gateways!Fetched(i)
  <2>1. PICK to : to = [gw[i] EXCEPT !.stage = "connecting"]
    OBVIOUS
  <2>2. to \in Connection /\ to.stage = "connecting" /\ ~to.silent
    BY <1>0, <1>5, <2>1 DEF Gateways!Fetched, Gateways!At, Sensible, Connection, Gateways!Stage
  <2>3. gw' = [gw EXCEPT ![i] = to]
    BY <1>0, <1>5, <2>1 DEF Gateways!Fetched
  <2> QED
    BY <1>0, <1>1, <1>5, <2>2, <2>3, ChangeKeeps DEF Gateways!Fetched
<1>6. CASE Gateways!FetchFails(i)
  <2>1. PICK to \in Connection : to.stage \in {"off", "waiting"} /\ ~to.silent /\ gw' = [gw EXCEPT ![i] = to]
    <3>1. Gateways!Off \in Connection /\ ~Gateways!Off.silent /\ Gateways!Off.stage = "off"
      BY OffTyped DEF Gateways!Off
    <3>2. gw[i].resume \in BOOLEAN
      BY <1>0 DEF Connection
    <3>3. CASE sup[i].pc = "start"
      BY <1>6, <3>1, <3>3 DEF Gateways!FetchFails
    <3>4. CASE sup[i].pc # "start"
      BY <1>6, <3>2, <3>4, WaitingTyped DEF Gateways!FetchFails
    <3> QED
      BY <3>3, <3>4
  <2>2. faults' \in 0 .. MaxFaults /\ UNCHANGED <<config, lease, fatal, stray, known>>
    BY <1>6, FaultTyped DEF Gateways!FetchFails
  <2>3. (sup' = sup \/ sup' = [sup EXCEPT ![i].pc = "idle"]) /\ sup'[i].pc # "start"
    BY <1>1, <1>6 DEF Gateways!FetchFails
  <2> QED
    BY <1>0, <2>1, <2>2, <2>3, ChangeKeeps
<1>7. CASE Gateways!Greet(i)
  <2>1. PICK to : to = [gw[i] EXCEPT !.stage = "greeted", !.resume = @ /\ gw[i].session]
    OBVIOUS
  <2>2. gw[i].resume \in BOOLEAN /\ gw[i].session \in BOOLEAN
    BY <1>0 DEF Connection
  <2>3. (gw[i].resume /\ gw[i].session) \in BOOLEAN
    OBVIOUS
  <2>4. to \in Connection /\ to.stage = "greeted"
    BY <1>0, <2>1, <2>3 DEF Connection, Gateways!Stage
  <2>5. to.resume => to.session
    BY <1>0, <2>1 DEF Connection
  <2>6. Gateways!Change(i, to) /\ sup[i].pc # "start"
    BY <1>3, <1>7, <2>1 DEF Gateways!Greet, Gateways!At
  <2> QED
    BY <1>0, <1>2, <1>7, <2>4, <2>5, <2>6 DEF Gateways!Greet
<1>8. CASE Gateways!Ready(i)
  <2>1. PICK to : to = [gw[i] EXCEPT !.stage = "ready", !.session = TRUE, !.url = TRUE]
    OBVIOUS
  <2>2. to \in Connection /\ to.stage = "ready" /\ to.session
    BY <1>0, <2>1 DEF Connection, Gateways!Stage
  <2>3. Gateways!Change(i, to) /\ sup[i].pc # "start" /\ known' \in [Instance -> BOOLEAN] /\ faults' = faults
    BY <1>0, <1>3, <1>8, <2>1 DEF Gateways!Ready, Gateways!At
  <2> QED
    BY <1>0, <1>2, <2>2, <2>3
<1>9. CASE Gateways!InvalidSession(i)
  <2>1. PICK to : to = [Gateways!Waiting(i, FALSE) EXCEPT !.session = FALSE]
    OBVIOUS
  <2>2. to \in Connection /\ to.stage = "waiting" /\ to.silent = FALSE
    BY <2>1, WaitingTyped
  <2>3. Gateways!Change(i, to) /\ sup[i].pc # "start" /\ UNCHANGED <<known, faults>>
    BY <1>3, <1>9, <2>1 DEF Gateways!InvalidSession, Gateways!At
  <2> QED
    BY <1>0, <1>2, <2>2, <2>3
<1>10. CASE Gateways!MissedBeat(i) \/ Gateways!ReconnectAsked(i)
  <2>1. sup[i].pc # "start"
    BY <1>0, <1>3, <1>10 DEF Gateways!MissedBeat, Gateways!ReconnectAsked, Sensible
  <2>2. Gateways!Change(i, Gateways!Waiting(i, TRUE)) /\ known' = known
    BY <1>10 DEF Gateways!MissedBeat, Gateways!ReconnectAsked
  <2>3. faults' \in 0 .. MaxFaults
    BY <1>0, <1>10, FaultTyped DEF Gateways!MissedBeat, Gateways!ReconnectAsked
  <2> QED
    BY <1>0, <1>2, <2>1, <2>2, <2>3, WaitingTyped
<1>11. CASE Gateways!GoSilent(i)
  <2>1. PICK to : to = [gw[i] EXCEPT !.silent = TRUE]
    OBVIOUS
  <2>2. to \in Connection /\ to.stage = gw[i].stage /\ to.resume = gw[i].resume /\ to.session = gw[i].session
    BY <1>0, <2>1 DEF Connection
  <2>3. /\ Gateways!Change(i, to) /\ sup[i].pc # "start" /\ known' = known /\ faults' \in 0 .. MaxFaults
        /\ to.stage \in {"greeted", "ready"}
    BY <1>3, <1>11, <2>1, <2>2, FaultTyped DEF Gateways!GoSilent
  <2> QED
    BY <1>0, <1>2, <2>2, <2>3 DEF Sensible
<1>12. CASE Gateways!Close(i)
  <2>1. PICK session \in {FALSE, gw[i].session} :
          Gateways!Change(i, [Gateways!Waiting(i, session) EXCEPT !.session = session])
    BY <1>12 DEF Gateways!Close
  <2>2. session \in BOOLEAN
    BY <1>0 DEF Connection
  <2>3. PICK to : to = [Gateways!Waiting(i, session) EXCEPT !.session = session]
    OBVIOUS
  <2>4. to \in Connection /\ to.stage = "waiting" /\ to.silent = FALSE
    BY <2>2, <2>3, WaitingTyped
  <2>5. sup[i].pc # "start" /\ known' = known /\ faults' \in 0 .. MaxFaults
    BY <1>3, <1>12, FaultTyped DEF Gateways!Close, Gateways!Socket
  <2> QED
    BY <1>0, <1>2, <2>1, <2>3, <2>4, <2>5
<1>13. CASE Gateways!CloseFatal(i)
  <2>1. Gateways!Off \in Connection /\ ~Gateways!Off.silent /\ Gateways!Off.stage = "off"
    BY OffTyped DEF Gateways!Off
  <2>2. gw[i].config \in Gateways!Config
    BY <1>0 DEF Connection
  <2>3. sup[i].pc # "start" /\ faults' \in 0 .. MaxFaults /\ fatal' \in [Instance -> Gateways!Config]
    BY <1>0, <1>3, <1>13, <2>2, FaultTyped DEF Gateways!CloseFatal, Gateways!Socket
  <2>4. gw' = [gw EXCEPT ![i] = Gateways!Off] /\ UNCHANGED <<config, lease, sup, stray, known>>
    BY <1>13 DEF Gateways!CloseFatal
  <2> QED
    BY <1>0, <2>1, <2>3, <2>4, ChangeKeeps
<1> QED
  BY <1>4, <1>5, <1>6, <1>7, <1>8, <1>9, <1>10, <1>11, <1>12, <1>13 DEF Gateways!GatewayStep

\* The network, the clock, and whoever saves a configuration.
LEMMA WorldKeeps ==
  ASSUME GatewaysCounted, GatewayInv,
         \/ \E i \in Instance : Gateways!Forget(i) \/ Gateways!StrayMoves(i) \/ Gateways!Crash(i)
         \/ Gateways!Lapse
         \/ \E to \in Gateways!Config : Gateways!SaveConfig(to)
         \/ UNCHANGED Gateways!vars
  PROVE  GatewayInv'
<1>1. ASSUME NEW i \in Instance, Gateways!Crash(i) PROVE GatewayInv'
  <2>0. gw \in [Instance -> Connection] /\ sup \in [Instance -> Supervisor]
    BY DEF GatewayInv, Gateways!TypeOK, Connection, Supervisor
  <2>1. [pc |-> "idle", config |-> 0] \in Supervisor
    BY OffTyped DEF Supervisor
  <2>2. sup' \in [Instance -> Supervisor] /\ gw' \in [Instance -> Connection]
    BY <1>1, <2>0, <2>1, OffTyped DEF Gateways!Crash
  <2>3. ASSUME NEW k \in Instance PROVE Sensible(k)'
    <3>1. CASE k = i
      <4>1. sup'[k].pc = "idle" /\ gw'[k] = Gateways!Off
        BY <1>1, <2>0, <3>1 DEF Gateways!Crash
      <4> QED
        BY <4>1 DEF Sensible, Gateways!Off
    <3>2. CASE k # i
      BY <1>1, <2>0, <3>2 DEF Gateways!Crash, GatewayInv, Sensible
    <3> QED
      BY <3>1, <3>2
  <2>4. faults' \in 0 .. MaxFaults /\ config' = config /\ lease' \subseteq lease
    BY <1>1, FaultTyped DEF Gateways!Crash
  <2>5. fatal' \in [Instance -> Gateways!Config] /\ stray' \in [Instance -> {"none", "fetching", "open"}]
        /\ known' \in [Instance -> BOOLEAN]
    BY <1>1, OffTyped DEF Gateways!Crash, GatewayInv, Gateways!TypeOK
  <2>6. Gateways!TypeOK'
    BY <2>2, <2>4, <2>5 DEF GatewayInv, Gateways!TypeOK, Connection, Supervisor
  <2> QED
    BY <2>3, <2>6 DEF GatewayInv
<1>2. ASSUME UNCHANGED <<gw, sup>>, Gateways!TypeOK' PROVE GatewayInv'
  BY <1>2 DEF GatewayInv, Sensible
<1>3. ASSUME NEW i \in Instance, Gateways!Forget(i) \/ Gateways!StrayMoves(i) PROVE GatewayInv'
  <2>1. faults' \in 0 .. MaxFaults
    BY <1>3, FaultTyped DEF Gateways!Forget, Gateways!StrayMoves, GatewayInv, Gateways!TypeOK
  <2> QED
    BY <1>2, <1>3, <2>1 DEF Gateways!Forget, Gateways!StrayMoves, GatewayInv, Gateways!TypeOK
<1>4. CASE Gateways!Lapse \/ \E to \in Gateways!Config : Gateways!SaveConfig(to)
  <2>1. faults' \in 0 .. MaxFaults
    BY <1>4, FaultTyped DEF Gateways!Lapse, Gateways!SaveConfig
  <2> QED
    BY <1>2, <1>4, <2>1 DEF Gateways!Lapse, Gateways!SaveConfig, GatewayInv, Gateways!TypeOK
<1>5. CASE UNCHANGED Gateways!vars
  BY <1>2, <1>5 DEF Gateways!vars, GatewayInv, Gateways!TypeOK
<1> QED
  BY <1>1, <1>3, <1>4, <1>5

\* Every connection is well typed, and so is every pass of a supervisor; a pass
\* waits for a URL only while its gateway does, whatever closes, dies or lapses
\* (server/integrations/discord-gateway.ts).
THEOREM GatewaysSensible ==
  GatewaysCounted /\ Gateways!Spec => [](Gateways!TypeOK /\ \A i \in Instance : Sensible(i))
<1> SUFFICES ASSUME GatewaysCounted PROVE Gateways!Spec => []GatewayInv
  BY DEF GatewayInv
<1>1. Gateways!Init => GatewayInv
  <2> SUFFICES ASSUME Gateways!Init PROVE GatewayInv
    OBVIOUS
  <2>1. Gateways!TypeOK
    <3>1. sup \in [Instance -> Supervisor] /\ gw \in [Instance -> Connection] /\ fatal \in [Instance -> Gateways!Config]
      BY OffTyped DEF Gateways!Init, Supervisor
    <3>2. config \in Gateways!Config /\ lease \in SUBSET Instance
      BY OffTyped DEF Gateways!Init
    <3>3. stray \in [Instance -> {"none", "fetching", "open"}] /\ known \in [Instance -> BOOLEAN]
      BY DEF Gateways!Init
    <3>4. faults \in 0 .. MaxFaults
      BY DEF Gateways!Init, GatewaysCounted
    <3> QED
      BY <3>1, <3>2, <3>3, <3>4 DEF Gateways!TypeOK, Supervisor, Connection
  <2>2. ASSUME NEW i \in Instance PROVE Sensible(i)
    <3>1. sup[i].pc = "idle" /\ gw[i] = Gateways!Off
      BY DEF Gateways!Init
    <3> QED
      BY <3>1 DEF Sensible, Gateways!Off
  <2> QED
    BY <2>1, <2>2 DEF GatewayInv
<1>2. GatewayInv /\ [Gateways!Next]_(Gateways!vars) => GatewayInv'
  BY SuperviseKeeps, LeaseKeeps, ConnectionKeeps, WorldKeeps DEF Gateways!Next
<1> QED
  BY <1>1, <1>2, PTL DEF Gateways!Spec

-----------------------------------------------------------------------------
(* Sign-ups with one link. *)

SignUp ==
  [pc : {"claim", "count", "insert", "won", "sync", "write", "create", "release", "done"},
   tries : Nat, seq : 0 .. MaxSeq, uses : Nat, failed : BOOLEAN]

\* What the proof needs to know of types; the counters may be any numbers.
Shape ==
  /\ held \in [Invites!Seq -> SUBSET Person]
  /\ signUp \in [Person -> SignUp]
  /\ joined \subseteq Person

\* A request past the claim, until a failed sign-up has released it.
Holding(r) ==
  \/ r.pc \in {"create", "release"}
  \/ r.pc \in {"sync", "write"} /\ r.failed = FALSE

\* A number that somebody was told is number 1, and what is released belongs to
\* a sign-up that failed.
Told(r) ==
  /\ r.pc \in {"insert", "won", "create", "release", "sync", "write"} => r.seq = 1
  /\ r.pc = "release" => r.failed = TRUE

OnlyFirst == \A n \in Invites!Seq : held[n] # {} => n = 1

OneHolder == \A p, q \in held[1] : p = q

HolderHolds == \A p \in Person : Told(signUp[p]) /\ (Holding(signUp[p]) => p \in held[1])

\* An account is for good, and so is its use.
JoinedHolds == \A p \in joined : signUp[p].pc = "done" /\ p \in held[1]

SingleInv == Shape /\ OnlyFirst /\ OneHolder /\ HolderHolds /\ JoinedHolds

\* Single use, and at least one number to give.
SingleUse == MaxUses = 1 /\ MaxSeq \in Nat \ {0}
-----------------------------------------------------------------------------
\* Both modules count alike.
LEMMA SameCount == \A S : Invites!Cardinality(S) = Cardinality(S)
BY DEF Invites!Cardinality, Cardinality

\* The numbers that are taken can be counted.
LEMMA TakenFinite == MaxSeq \in Nat => IsFiniteSet(Invites!Taken)
<1> SUFFICES ASSUME MaxSeq \in Nat PROVE IsFiniteSet(Invites!Taken)
  OBVIOUS
<1>1. IsFiniteSet(Invites!Seq)
  BY FS_Interval DEF Invites!Seq
<1> QED
  BY <1>1, FS_Subset DEF Invites!Taken

\* Whoever counts less than one use finds none, and is told number 1.
LEMMA NoneTaken ==
  ASSUME MaxSeq \in Nat, ~(Invites!Cardinality(Invites!Taken) >= 1)
  PROVE  Invites!Taken = {} /\ Invites!Max({0} \cup Invites!Taken) = 0
<1>1. Invites!Cardinality(Invites!Taken) = 0
  BY TakenFinite, SameCount, FS_CardinalityType
<1>2. Invites!Taken = {}
  BY <1>1, TakenFinite, SameCount, FS_EmptySet
<1>3. Invites!Max({0}) = 0
  BY DEF Invites!Max
<1> QED
  BY <1>2, <1>3

\* Nobody holds anything at first.
LEMMA InitSingle == SingleUse /\ Invites!Init => SingleInv
<1> SUFFICES ASSUME SingleUse, Invites!Init PROVE SingleInv
  OBVIOUS
<1> 1 \in Invites!Seq
  BY DEF SingleUse, Invites!Seq
<1> QED
  BY DEF SingleUse, Invites!Init, SingleInv, Shape, SignUp, OnlyFirst, OneHolder, HolderHolds, JoinedHolds, Told, Holding,
       Invites!Seq

\* A step of one request keeps the invariant if its own new record agrees with
\* what is held, nobody else's use is touched and no one else joins.
LEMMA Carried ==
  ASSUME SingleInv, NEW p \in Person, NEW r \in SignUp,
         signUp' = [signUp EXCEPT ![p] = r],
         held' \in [Invites!Seq -> SUBSET Person], OnlyFirst', OneHolder',
         \A q \in held[1] : q # p => q \in held'[1],
         Told(r), Holding(r) => p \in held'[1],
         joined' \subseteq Person, \A q \in joined' : q # p => q \in joined,
         p \in joined' => r.pc = "done" /\ p \in held'[1]
  PROVE  SingleInv'
<1>1. Shape'
  BY DEF SingleInv, Shape
<1>2. \A q \in Person : signUp'[q] = IF q = p THEN r ELSE signUp[q]
  BY DEF SingleInv, Shape
<1>3. HolderHolds'
  <2> SUFFICES ASSUME NEW q \in Person PROVE Told(signUp'[q]) /\ (Holding(signUp'[q]) => q \in held'[1])
    BY DEF HolderHolds, Told, Holding
  <2>1. CASE q = p
    BY <2>1, <1>2
  <2>2. CASE q # p
    <3>1. signUp'[q] = signUp[q]
      BY <2>2, <1>2
    <3> QED
      BY <3>1, <2>2 DEF SingleInv, HolderHolds
  <2> QED
    BY <2>1, <2>2
<1>4. JoinedHolds'
  <2> SUFFICES ASSUME NEW q \in joined' PROVE signUp'[q].pc = "done" /\ q \in held'[1]
    BY DEF JoinedHolds
  <2> QED
    BY <1>2 DEF SingleInv, JoinedHolds
<1> QED
  BY <1>1, <1>3, <1>4 DEF SingleInv

\* Every step of a request keeps the one number with its one holder.
LEMMA StepSingle ==
  ASSUME SingleUse, SingleInv, NEW p \in Person, Invites!Step(p) \/ Invites!Retry(p)
  PROVE  SingleInv'
<1> 1 \in Invites!Seq /\ 1 \in 0 .. MaxSeq /\ MaxSeq \in Nat
  BY DEF SingleUse, Invites!Seq
<1> DEFINE rq == signUp[p]
<1>a. rq \in SignUp /\ Told(rq) /\ (Holding(rq) => p \in held[1])
  BY DEF SingleInv, Shape, HolderHolds
<1>b. held \in [Invites!Seq -> SUBSET Person] /\ joined \subseteq Person /\ OnlyFirst /\ OneHolder /\ JoinedHolds
  BY DEF SingleInv, Shape
<1>c. p \in joined => rq.pc = "done" /\ p \in held[1]
  BY <1>b DEF JoinedHolds
\* Steps that leave held and joined alone.
<1>d. ASSUME NEW r \in SignUp, signUp' = [signUp EXCEPT ![p] = r], UNCHANGED <<held, joined>>,
             rq.pc # "done" \/ p \notin joined, Told(r), Holding(r) => p \in held[1]
      PROVE  SingleInv'
  <2>1. OnlyFirst' /\ OneHolder'
    BY <1>d, <1>b DEF OnlyFirst, OneHolder
  <2> QED
    BY <1>b, <1>c, <1>d, <2>1, Carried
<1>1. CASE Invites!Claim(p)
  <2>1. PICK pc \in {"count", "done"} : signUp' = [signUp EXCEPT ![p] = [rq EXCEPT !.pc = pc]]
    BY <1>1 DEF Invites!Claim, Invites!GoTo, Invites!Set
  <2> DEFINE r == [rq EXCEPT !.pc = pc]
  <2>2. r \in SignUp /\ Told(r) /\ ~Holding(r)
    BY <1>a, <2>1 DEF SignUp, Told, Holding
  <2> QED
    BY <1>1, <2>1, <2>2, <1>d DEF Invites!Claim, Invites!At
<1>2. CASE Invites!Count(p)
  <2>1. CASE Invites!Cardinality(Invites!Taken) >= MaxUses
    <3> DEFINE r == [rq EXCEPT !.pc = "done"]
    <3>1. r \in SignUp /\ Told(r) /\ ~Holding(r)
      BY <1>a DEF SignUp, Told, Holding
    <3>2. signUp' = [signUp EXCEPT ![p] = r]
      BY <1>2, <2>1 DEF Invites!Count, Invites!GoTo, Invites!Set
    <3> QED
      BY <1>2, <3>1, <3>2, <1>d DEF Invites!Count, Invites!At
  <2>2. CASE ~(Invites!Cardinality(Invites!Taken) >= MaxUses)
    <3> DEFINE r == [rq EXCEPT !.pc = "insert", !.seq = 1]
    <3>1. Invites!Max({0} \cup Invites!Taken) + 1 = 1
      BY <2>2, NoneTaken DEF SingleUse
    <3>2. signUp' = [signUp EXCEPT ![p] = r]
      BY <1>2, <2>2, <3>1 DEF Invites!Count, Invites!Set
    <3>3. r \in SignUp /\ Told(r) /\ ~Holding(r)
      BY <1>a DEF SignUp, Told, Holding
    <3> QED
      BY <1>2, <3>2, <3>3, <1>d DEF Invites!Count, Invites!At
  <2> QED
    BY <2>1, <2>2
<1>3. CASE Invites!Insert(p)
  <2> DEFINE r == [rq EXCEPT !.pc = "won"]
  <2>1. rq.pc = "insert" /\ rq.seq = 1 /\ p \notin joined
    BY <1>3, <1>a, <1>c DEF Invites!Insert, Invites!At, Told
  <2>2. held' = [held EXCEPT ![1] = IF @ = {} THEN {p} ELSE @] /\ joined' = joined
    BY <1>3, <2>1 DEF Invites!Insert
  <2>3. signUp' = [signUp EXCEPT ![p] = r]
    BY <1>3 DEF Invites!Insert, Invites!GoTo, Invites!Set
  <2>4. r \in SignUp /\ Told(r) /\ ~Holding(r)
    BY <1>a, <2>1 DEF SignUp, Told, Holding
  <2>5. /\ held' \in [Invites!Seq -> SUBSET Person]
        /\ \A n \in Invites!Seq : held'[n] = IF n = 1 /\ held[1] = {} THEN {p} ELSE held[n]
    BY <2>2, <1>b
  <2>6. OnlyFirst' /\ OneHolder'
    BY <2>5, <1>b DEF OnlyFirst, OneHolder
  <2> QED
    BY <2>1, <2>2, <2>3, <2>4, <2>5, <2>6, <1>b, Carried
<1>4. CASE Invites!Won(p)
  <2>1. rq.pc = "won" /\ rq.seq = 1
    BY <1>4, <1>a DEF Invites!Won, Invites!At, Told
  <2>2. CASE p \in held[1]
    <3> DEFINE r == [rq EXCEPT !.pc = "sync"]
    <3>1. signUp' = [signUp EXCEPT ![p] = r]
      BY <1>4, <2>1, <2>2 DEF Invites!Won, Invites!GoTo, Invites!Set
    <3>2. r \in SignUp /\ Told(r)
      BY <1>a, <2>1 DEF SignUp, Told
    <3> QED
      BY <1>4, <2>1, <2>2, <3>1, <3>2, <1>d DEF Invites!Won
  <2>3. CASE p \notin held[1]
    <3> DEFINE r == [rq EXCEPT !.pc = "claim", !.tries = @ + 1]
    <3>1. signUp' = [signUp EXCEPT ![p] = r]
      BY <1>4, <2>1, <2>3 DEF Invites!Won, Invites!Set
    <3>2. rq.tries + 1 \in Nat
      BY <1>a DEF SignUp
    <3>3. r \in SignUp /\ Told(r) /\ ~Holding(r)
      BY <1>a, <2>1, <3>2 DEF SignUp, Told, Holding
    <3> QED
      BY <1>4, <2>1, <3>1, <3>3, <1>d DEF Invites!Won
  <2> QED
    BY <2>2, <2>3
<1>5. CASE Invites!Sync(p)
  <2> DEFINE r == [rq EXCEPT !.pc = "write", !.uses = Invites!Cardinality(Invites!Taken)]
  <2>1. Invites!Cardinality(Invites!Taken) \in Nat
    BY TakenFinite, SameCount, FS_CardinalityType
  <2>2. signUp' = [signUp EXCEPT ![p] = r]
    BY <1>5 DEF Invites!Sync, Invites!Set
  <2>3. r \in SignUp /\ Told(r) /\ (Holding(r) => p \in held[1])
    BY <1>5, <1>a, <2>1 DEF Invites!Sync, Invites!At, SignUp, Told, Holding
  <2> QED
    BY <1>5, <2>2, <2>3, <1>d DEF Invites!Sync, Invites!At
<1>6. CASE Invites!Write(p)
  <2>1. PICK pc \in {"create", "done"} : /\ signUp' = [signUp EXCEPT ![p] = [rq EXCEPT !.pc = pc]]
                                         /\ pc = "create" => rq.failed = FALSE
    <3>1. rq.failed \in BOOLEAN
      BY <1>a DEF SignUp
    <3>2. CASE rq.failed = TRUE
      BY <1>6, <3>2 DEF Invites!Write, Invites!GoTo, Invites!Set
    <3>3. CASE rq.failed = FALSE
      BY <1>6, <3>3 DEF Invites!Write, Invites!GoTo, Invites!Set
    <3> QED
      BY <3>1, <3>2, <3>3
  <2> DEFINE r == [rq EXCEPT !.pc = pc]
  <2>2. r \in SignUp /\ Told(r) /\ (Holding(r) => p \in held[1])
    BY <1>6, <1>a, <2>1 DEF Invites!Write, Invites!At, SignUp, Told, Holding
  <2> QED
    BY <1>6, <2>1, <2>2, <1>d DEF Invites!Write, Invites!At
<1>7. CASE Invites!Create(p)
  <2>1. rq.pc = "create" /\ p \in held[1]
    BY <1>7, <1>a DEF Invites!Create, Invites!At, Holding
  <2>2. CASE joined' = joined \cup {p} /\ Invites!GoTo(p, "done")
    <3> DEFINE r == [rq EXCEPT !.pc = "done"]
    <3>1. signUp' = [signUp EXCEPT ![p] = r] /\ held' = held
      BY <1>7, <2>2 DEF Invites!Create, Invites!GoTo, Invites!Set
    <3>2. r \in SignUp /\ Told(r) /\ ~Holding(r) /\ r.pc = "done"
      BY <1>a DEF SignUp, Told, Holding
    <3>3. OnlyFirst' /\ OneHolder'
      BY <3>1, <1>b DEF OnlyFirst, OneHolder
    <3> QED
      BY <2>1, <2>2, <3>1, <3>2, <3>3, <1>b, Carried
  <2>3. CASE UNCHANGED joined /\ Invites!Set(p, [signUp[p] EXCEPT !.pc = "release", !.failed = TRUE])
    <3> DEFINE r == [rq EXCEPT !.pc = "release", !.failed = TRUE]
    <3>1. r \in SignUp /\ Told(r)
      BY <1>a, <2>1 DEF SignUp, Told
    <3>2. signUp' = [signUp EXCEPT ![p] = r] /\ UNCHANGED <<held, joined>>
      BY <1>7, <2>3 DEF Invites!Create, Invites!Set
    <3> QED
      BY <2>1, <3>1, <3>2, <1>d
  <2> QED
    BY <1>7, <2>2, <2>3 DEF Invites!Create
<1>8. CASE Invites!Release(p)
  <2> DEFINE r == [rq EXCEPT !.pc = "sync"]
  <2>1. rq.pc = "release" /\ rq.seq = 1 /\ rq.failed = TRUE /\ p \notin joined
    BY <1>8, <1>a, <1>c DEF Invites!Release, Invites!At, Told
  <2>2. held' = [held EXCEPT ![1] = @ \ {p}] /\ joined' = joined
    BY <1>8, <2>1 DEF Invites!Release
  <2>3. signUp' = [signUp EXCEPT ![p] = r]
    BY <1>8 DEF Invites!Release, Invites!GoTo, Invites!Set
  <2>4. r \in SignUp /\ Told(r) /\ ~Holding(r)
    BY <1>a, <2>1 DEF SignUp, Told, Holding
  <2>5. /\ held' \in [Invites!Seq -> SUBSET Person]
        /\ \A n \in Invites!Seq : held'[n] = IF n = 1 THEN held[1] \ {p} ELSE held[n]
    BY <2>2, <1>b
  <2>6. OnlyFirst' /\ OneHolder'
    BY <2>5, <1>b DEF OnlyFirst, OneHolder
  <2> QED
    BY <2>1, <2>2, <2>3, <2>4, <2>5, <2>6, <1>b, Carried
<1>9. CASE Invites!Retry(p)
  <2> DEFINE r == [pc |-> "claim", tries |-> 0, seq |-> 0, uses |-> 0, failed |-> FALSE]
  <2>1. r \in SignUp /\ Told(r) /\ ~Holding(r)
    BY DEF SignUp, Told, Holding
  <2> QED
    BY <1>9, <2>1, <1>d DEF Invites!Retry, Invites!Set
<1> QED
  BY <1>1, <1>2, <1>3, <1>4, <1>5, <1>6, <1>7, <1>8, <1>9 DEF Invites!Step

\* Neither does the link's end, or a step of something else.
LEMMA NextSingle == SingleUse /\ SingleInv /\ [Invites!Next]_(Invites!vars) => SingleInv'
<1> SUFFICES ASSUME SingleUse, SingleInv, [Invites!Next]_(Invites!vars) PROVE SingleInv'
  OBVIOUS
<1>1. CASE Invites!Expire \/ UNCHANGED Invites!vars
  BY <1>1 DEF Invites!Expire, Invites!vars, SingleInv, Shape, OnlyFirst, OneHolder, HolderHolds, JoinedHolds, Holding
<1>2. CASE \E p \in Person : Invites!Step(p) \/ Invites!Retry(p)
  BY <1>2, StepSingle
<1> QED
  BY <1>1, <1>2 DEF Invites!Next

\* Everyone with an account holds the one use that one person holds.
LEMMA OneJoined == SingleUse /\ SingleInv => Invites!UsedOnce
<1> SUFFICES ASSUME SingleUse, SingleInv PROVE Invites!Cardinality(joined) <= 1
  BY DEF Invites!UsedOnce
<1>1. CASE joined = {}
  BY <1>1, SameCount, FS_EmptySet
<1>2. CASE joined # {}
  <2>1. PICK p : p \in joined
    BY <1>2
  <2>2. joined = {p}
    BY <2>1 DEF SingleInv, JoinedHolds, OneHolder
  <2>3. Invites!Cardinality(joined) = 1
    BY <2>2, SameCount, FS_Singleton
  <2> QED
    BY <2>3
<1> QED
  BY <1>1, <1>2

\* A single-use link lets one person in, however many people claim it, release
\* it and try again, and at whatever moments (claimInviteUse, syncUses,
\* releaseInviteUse).
THEOREM SingleUseOnce == SingleUse /\ Invites!Spec => []Invites!UsedOnce
<1> SUFFICES ASSUME SingleUse PROVE Invites!Spec => []Invites!UsedOnce
  OBVIOUS
<1>1. Invites!Spec => []SingleInv
  BY InitSingle, NextSingle, PTL DEF Invites!Spec
<1> QED
  BY <1>1, OneJoined, PTL

-----------------------------------------------------------------------------
(* Grants of assistants. *)

Exchange ==
  [pc : {"idle", "grant", "use", "access", "refresh", "revoke", "tokens", "call"},
   token : Grants!Token, late : BOOLEAN]

\* A call begun after a revocation has a grant that is revoked, for good: no
\* step makes it live again.
GrantInv ==
  /\ exchange \in [Client -> Exchange]
  /\ \A c \in Client : exchange[c].late => grant = "revoked"
  /\ "late" \notin outcome

\* There is room for a number of pairs.
PairsCounted == MaxPairs \in Nat

LEMMA InitGrant == PairsCounted /\ Grants!Init => GrantInv
BY DEF PairsCounted, Grants!Init, Grants!Idle, Grants!Token, GrantInv, Exchange

\* A request goes on with the call that it is, or takes up another.
LEMMA GrantStep ==
  ASSUME GrantInv, NEW c \in Client, NEW e \in Exchange, e.late = TRUE => grant = "revoked",
         exchange' = [exchange EXCEPT ![c] = e], grant' = grant \/ grant' = "revoked", outcome' = outcome
  PROVE  GrantInv'
BY DEF GrantInv, Exchange

LEMMA GoGrant ==
  ASSUME GrantInv, NEW c \in Client, NEW pc,
         pc \in {"idle", "grant", "use", "access", "refresh", "revoke", "tokens", "call"},
         Grants!GoTo(c, pc), grant' = grant \/ grant' = "revoked", outcome' = outcome
  PROVE  GrantInv'
<1>1. exchange[c] \in Exchange /\ (exchange[c].late => grant = "revoked")
  BY DEF GrantInv
<1>2. PICK e : e = [exchange[c] EXCEPT !.pc = pc]
  OBVIOUS
<1>3. e \in Exchange /\ e.late = exchange[c].late
  BY <1>1, <1>2 DEF Exchange
<1>4. exchange' = [exchange EXCEPT ![c] = e]
  BY <1>2 DEF Grants!GoTo, GrantInv
<1> QED
  BY <1>1, <1>3, <1>4, GrantStep

LEMMA DoneGrant ==
  ASSUME PairsCounted, GrantInv, NEW c \in Client, Grants!Done(c), grant' = grant, outcome' = outcome
  PROVE  GrantInv'
<1>1. Grants!Idle \in Exchange /\ Grants!Idle.late = FALSE
  BY DEF PairsCounted, Grants!Idle, Exchange, Grants!Token
<1> QED
  BY <1>1, GrantStep DEF Grants!Done

LEMMA CallGrant ==
  ASSUME GrantInv, NEW c \in Client, NEW t \in Grants!Token, Grants!Call(c, t)
  PROVE  GrantInv'
<1>1. PICK l \in BOOLEAN : l = Grants!Withdrawn
  BY DEF Grants!Withdrawn
<1>2. PICK e : e = [pc |-> "call", token |-> t, late |-> l]
  OBVIOUS
<1>3. e \in Exchange /\ e.late = l
  BY <1>2 DEF Exchange
<1>4. l = TRUE => grant = "revoked"
  BY <1>1 DEF Grants!Withdrawn
<1>5. exchange' = [exchange EXCEPT ![c] = e] /\ grant' = grant /\ outcome' = outcome
  BY <1>1, <1>2 DEF Grants!Call
<1> QED
  BY <1>3, <1>4, <1>5, GrantStep

\* The grant is read after the token.
LEMMA ResolveGrant ==
  ASSUME PairsCounted, GrantInv, NEW c \in Client, Grants!Resolve(c)
  PROVE  GrantInv'
<1>1. grant = "live" => ~exchange[c].late
  BY DEF GrantInv
<1>2. "late" \notin outcome'
  BY <1>1 DEF GrantInv, Grants!Resolve, Grants!Answer
<1>3. Grants!Idle \in Exchange /\ Grants!Idle.late = FALSE
  BY DEF PairsCounted, Grants!Idle, Exchange, Grants!Token
<1>4. exchange' = [exchange EXCEPT ![c] = Grants!Idle] /\ grant' = grant
  BY DEF Grants!Resolve, Grants!Done
<1> QED
  BY <1>2, <1>3, <1>4 DEF GrantInv

LEMMA RequestGrant ==
  ASSUME PairsCounted, GrantInv, NEW c \in Client, NEW t \in Grants!Token,
         \/ Grants!CheckGrant(c) \/ Grants!Use(c) \/ Grants!IssueAccess(c) \/ Grants!IssueRefresh(c)
         \/ Grants!Exchange(c, t) \/ Grants!RevokeAccess(c, t)
  PROVE  GrantInv'
<1>1. CASE Grants!CheckGrant(c)
  <2>1. Grants!GoTo(c, "use") \/ Grants!Done(c)
    BY <1>1 DEF Grants!CheckGrant
  <2> QED
    BY <1>1, <2>1, GoGrant, DoneGrant DEF Grants!CheckGrant
<1>2. CASE Grants!Use(c)
  BY <1>2, GoGrant DEF Grants!Use
<1>3. CASE Grants!IssueAccess(c)
  <2>1. PICK u \in Grants!Token : exchange' = [exchange EXCEPT ![c].pc = "refresh", ![c].token = u]
    BY <1>3 DEF Grants!IssueAccess
  <2>2. exchange[c] \in Exchange /\ (exchange[c].late => grant = "revoked")
    BY DEF GrantInv
  <2>3. PICK e : e = [exchange[c] EXCEPT !.pc = "refresh", !.token = u]
    OBVIOUS
  <2>4. e \in Exchange /\ e.late = exchange[c].late
    BY <2>2, <2>3 DEF Exchange
  <2>5. exchange' = [exchange EXCEPT ![c] = e]
    BY <2>1, <2>3 DEF GrantInv
  <2> QED
    BY <1>3, <2>2, <2>4, <2>5, GrantStep DEF Grants!IssueAccess
<1>4. CASE Grants!IssueRefresh(c)
  BY <1>4, DoneGrant DEF Grants!IssueRefresh
<1>5. CASE Grants!Exchange(c, t)
  <2>1. PICK e : e = [Grants!Idle EXCEPT !.pc = IF Grants!Spent(t) THEN "revoke" ELSE "grant", !.token = t]
    OBVIOUS
  <2>2. e \in Exchange /\ e.late = FALSE
    BY <2>1 DEF Grants!Idle, Exchange
  <2>3. exchange' = [exchange EXCEPT ![c] = e]
    BY <1>5, <2>1 DEF Grants!Exchange
  <2> QED
    BY <1>5, <2>2, <2>3, GrantStep DEF Grants!Exchange
<1>6. CASE Grants!RevokeAccess(c, t)
  BY <1>6 DEF Grants!RevokeAccess, GrantInv
<1> QED
  BY <1>1, <1>2, <1>3, <1>4, <1>5, <1>6

LEMMA RevokeOfGrant ==
  ASSUME PairsCounted, GrantInv, NEW c \in Client,
         Grants!Disconnect(c) \/ Grants!RevokeGrant(c) \/ Grants!RevokeTokens(c)
  PROVE  GrantInv'
<1>1. CASE Grants!Disconnect(c)
  BY <1>1, GoGrant DEF Grants!Disconnect
<1>2. CASE Grants!RevokeGrant(c)
  BY <1>2, GoGrant DEF Grants!RevokeGrant
<1>3. CASE Grants!RevokeTokens(c)
  BY <1>3, DoneGrant DEF Grants!RevokeTokens
<1> QED
  BY <1>1, <1>2, <1>3

LEMMA NextGrant == PairsCounted /\ GrantInv /\ [Grants!Next]_(Grants!vars) => GrantInv'
<1> SUFFICES ASSUME PairsCounted, GrantInv, [Grants!Next]_(Grants!vars) PROVE GrantInv'
  OBVIOUS
<1>1. CASE Grants!Approve
  BY <1>1 DEF Grants!Approve, GrantInv
<1>2. ASSUME NEW c \in Client,
        \/ Grants!CheckGrant(c) \/ Grants!Use(c) \/ Grants!IssueAccess(c) \/ Grants!IssueRefresh(c)
      PROVE  GrantInv'
  <2>1. 0 \in Grants!Token
    BY DEF PairsCounted, Grants!Token
  <2> QED
    BY <1>2, <2>1, RequestGrant
<1>3. ASSUME NEW c \in Client, Grants!Disconnect(c) \/ Grants!RevokeGrant(c) \/ Grants!RevokeTokens(c)
      PROVE  GrantInv'
  BY <1>3, RevokeOfGrant
<1>4. ASSUME NEW c \in Client, Grants!Resolve(c) PROVE GrantInv'
  BY <1>4, ResolveGrant
<1>5. ASSUME NEW c \in Client, NEW t \in Grants!Token,
             Grants!Exchange(c, t) \/ Grants!RevokeAccess(c, t) \/ Grants!Call(c, t)
      PROVE  GrantInv'
  BY <1>5, RequestGrant, CallGrant
<1>6. CASE UNCHANGED Grants!vars
  BY <1>6 DEF Grants!vars, GrantInv
<1> QED
  BY <1>1, <1>2, <1>3, <1>4, <1>5, <1>6 DEF Grants!Next

\* Once a revocation has ended (revokeGrant withdraws the grant before its
\* tokens) no call is answered, whatever exchanges go on issuing.
THEOREM RevokedStaysRevoked == PairsCounted /\ Grants!Spec => []Grants!WithdrawnForGood
<1> SUFFICES ASSUME PairsCounted PROVE Grants!Spec => []Grants!WithdrawnForGood
  OBVIOUS
<1>1. Grants!Spec => []GrantInv
  BY InitGrant, NextGrant, PTL DEF Grants!Spec
<1>2. GrantInv => Grants!WithdrawnForGood
  BY DEF GrantInv, Grants!WithdrawnForGood
<1> QED
  BY <1>1, <1>2, PTL

\* A request keeps the types of the grant and its tokens.
LEMMA GrantsStep ==
  ASSUME PairsCounted, Grants!TypeOK, NEW r \in Client,
         \/ Grants!CheckGrant(r) \/ Grants!Use(r) \/ Grants!IssueAccess(r) \/ Grants!IssueRefresh(r)
         \/ Grants!Disconnect(r) \/ Grants!RevokeGrant(r) \/ Grants!RevokeTokens(r) \/ Grants!Resolve(r)
         \/ \E t \in Grants!Token : Grants!Exchange(r, t) \/ Grants!RevokeAccess(r, t) \/ Grants!Call(r, t)
  PROVE  Grants!TypeOK'
<1> USE DEF Exchange
<1>0. exchange \in [Client -> Exchange] /\ 0 \in Grants!Token
  BY DEF Grants!TypeOK, PairsCounted, Grants!Token, Exchange
<1>1. Grants!Idle \in Exchange /\ Grants!Idle.late = FALSE
  BY <1>0 DEF Grants!Idle
<1>2. \A pc \in {"idle", "grant", "use", "access", "refresh", "revoke", "tokens", "call"} :
        Grants!GoTo(r, pc) => exchange' \in [Client -> Exchange]
  BY <1>0 DEF Grants!GoTo
<1>3. Grants!Done(r) => exchange' \in [Client -> Exchange]
  BY <1>0, <1>1 DEF Grants!Done
<1>4. \A t \in Grants!Token : Grants!UseToken(t) =>
        refresh' \in [Grants!Token -> {"none", "valid", "used", "revoked", "usedRevoked"}]
  BY DEF Grants!UseToken, Grants!TypeOK
<1>5. exchange[r].token \in Grants!Token
  BY <1>0
<1>6. CASE Grants!CheckGrant(r)
  <2>1. exchange' \in [Client -> Exchange]
    BY <1>2, <1>3, <1>6 DEF Grants!CheckGrant
  <2>2. refresh' \in [Grants!Token -> {"none", "valid", "used", "revoked", "usedRevoked"}]
    BY <1>0, <1>4, <1>6 DEF Grants!CheckGrant, Grants!TypeOK
  <2> QED
    BY <1>6, <2>1, <2>2 DEF Grants!CheckGrant, Grants!TypeOK
<1>7. CASE Grants!Use(r)
  BY <1>2, <1>4, <1>5, <1>7 DEF Grants!Use, Grants!TypeOK
<1>8. CASE Grants!IssueAccess(r)
  <2>1. PICK t \in Grants!Token : /\ access' = [access EXCEPT ![t] = "valid"]
                                  /\ exchange' = [exchange EXCEPT ![r].pc = "refresh", ![r].token = t]
    BY <1>8 DEF Grants!IssueAccess
  <2>2. exchange' \in [Client -> Exchange]
    BY <1>0, <2>1
  <2> QED
    BY <1>8, <2>1, <2>2 DEF Grants!IssueAccess, Grants!TypeOK
<1>9. CASE Grants!IssueRefresh(r) \/ Grants!Disconnect(r) \/ Grants!RevokeGrant(r)
  <2>1. exchange' \in [Client -> Exchange]
    BY <1>2, <1>3, <1>9 DEF Grants!IssueRefresh, Grants!Disconnect, Grants!RevokeGrant
  <2> QED
    BY <1>5, <1>9, <2>1 DEF Grants!IssueRefresh, Grants!Disconnect, Grants!RevokeGrant, Grants!TypeOK
<1>10. CASE Grants!RevokeTokens(r)
  <2>1. exchange' \in [Client -> Exchange]
    BY <1>3, <1>10 DEF Grants!RevokeTokens
  <2>2. access' \in [Grants!Token -> {"none", "valid", "revoked"}]
    BY <1>10 DEF Grants!RevokeTokens
  <2>3. refresh' \in [Grants!Token -> {"none", "valid", "used", "revoked", "usedRevoked"}]
    BY <1>10 DEF Grants!RevokeTokens, Grants!TypeOK
  <2> QED
    BY <1>10, <2>1, <2>2, <2>3 DEF Grants!RevokeTokens, Grants!TypeOK
<1>11. CASE Grants!Resolve(r)
  <2>1. exchange' \in [Client -> Exchange]
    BY <1>3, <1>11 DEF Grants!Resolve
  <2>2. outcome' \subseteq {"early", "late"}
    BY <1>11 DEF Grants!Resolve, Grants!Answer, Grants!TypeOK
  <2> QED
    BY <1>11, <2>1, <2>2 DEF Grants!Resolve, Grants!TypeOK
<1>12. ASSUME NEW t \in Grants!Token, Grants!Exchange(r, t) \/ Grants!RevokeAccess(r, t) \/ Grants!Call(r, t)
       PROVE  Grants!TypeOK'
  <2>1. CASE Grants!Exchange(r, t)
    <3>1. PICK pc \in {"revoke", "grant"} : exchange' = [exchange EXCEPT ![r] = [Grants!Idle EXCEPT !.pc = pc, !.token = t]]
      <4>1. CASE Grants!Spent(t)
        BY <2>1, <4>1 DEF Grants!Exchange
      <4>2. CASE ~Grants!Spent(t)
        BY <2>1, <4>2 DEF Grants!Exchange
      <4> QED
        BY <4>1, <4>2
    <3>2. [Grants!Idle EXCEPT !.pc = pc, !.token = t] \in Exchange
      BY <1>1
    <3>3. exchange' \in [Client -> Exchange]
      BY <1>0, <3>1, <3>2
    <3>4. UNCHANGED <<grant, access, refresh, outcome>>
      BY <2>1 DEF Grants!Exchange
    <3> QED
      BY <3>3, <3>4 DEF Grants!TypeOK
  <2>2. CASE Grants!RevokeAccess(r, t)
    BY <2>2 DEF Grants!RevokeAccess, Grants!TypeOK
  <2>3. CASE Grants!Call(r, t)
    <3>1. Grants!Withdrawn \in BOOLEAN
      BY DEF Grants!Withdrawn
    <3>2. [pc |-> "call", token |-> t, late |-> Grants!Withdrawn] \in Exchange
      BY <3>1
    <3> QED
      BY <1>0, <2>3, <3>2 DEF Grants!Call, Grants!TypeOK
  <2> QED
    BY <1>12, <2>1, <2>2, <2>3
<1> QED
  BY <1>6, <1>7, <1>8, <1>9, <1>10, <1>11, <1>12

\* Every grant, token and request is well typed, whatever exchanges, calls and
\* revocations meet (server/mcp/auth.ts).
THEOREM GrantsTyped == PairsCounted /\ Grants!Spec => []Grants!TypeOK
<1> SUFFICES ASSUME PairsCounted PROVE Grants!Spec => []Grants!TypeOK
  OBVIOUS
<1>1. Grants!Init => Grants!TypeOK
  BY DEF PairsCounted, Grants!Init, Grants!TypeOK, Grants!Idle, Grants!Token
<1>2. Grants!TypeOK /\ [Grants!Next]_(Grants!vars) => Grants!TypeOK'
  <2> SUFFICES ASSUME Grants!TypeOK, [Grants!Next]_(Grants!vars) PROVE Grants!TypeOK'
    OBVIOUS
  <2>1. CASE Grants!Approve
    BY <2>1 DEF Grants!Approve, Grants!TypeOK
  <2>2. CASE UNCHANGED Grants!vars
    BY <2>2 DEF Grants!vars, Grants!TypeOK
  <2> QED
    BY <2>1, <2>2, GrantsStep DEF Grants!Next
<1> QED
  BY <1>1, <1>2, PTL DEF Grants!Spec
=============================================================================
