---------------------------- MODULE SqliteQueue -----------------------------
(***************************************************************************)
(* The one SQLite connection that all requests share (createSqliteDriver   *)
(* in server/db/driver.ts): transactions and the writes outside them take  *)
(* turns in a queue, and the async context tells the statements of the     *)
(* open transaction from everybody else's.                                 *)
(*                                                                         *)
(* A request does one thing at a time, a write or a transaction of several *)
(* writes with other transactions nested in it, and waits for each.  What  *)
(* the database holds is counted by request.  Reads go straight through    *)
(* and change nothing.                                                     *)
(***************************************************************************)
EXTENDS Naturals, Sequences

CONSTANTS
  Request,
  MaxWrites,  \* bound: writes of one transaction
  MaxDepth,   \* bound: transactions inside one another
  MaxStored   \* bound: writes a request has stored when it stops asking

VARIABLES
  queue,    \* the promise chain: the work that runs, and what waits behind it
  request,
  open,     \* the connection: whether a BEGIN IMMEDIATE is open
  pending,  \* the connection: writes since that BEGIN, by request
  stored    \* the file: committed writes, by request

vars == <<queue, request, open, pending, stored>>

\* "queued" waits for its turn, "inside" is in its own transaction.
RequestRecord == [pc : {"idle", "queued", "inside"}, what : {"write", "transaction"}, writes : Nat, depth : Nat]
Idle == [pc |-> "idle", what |-> "write", writes |-> 0, depth |-> 0]

TypeOK ==
  /\ queue \in Seq(Request)
  /\ request \in [Request -> RequestRecord]
  /\ open \in BOOLEAN
  /\ pending \in [Request -> Nat]
  /\ stored \in [Request -> Nat]

Init ==
  /\ queue = <<>>
  /\ request = [r \in Request |-> Idle]
  /\ open = FALSE
  /\ pending = [r \in Request |-> 0]
  /\ stored = [r \in Request |-> 0]

-----------------------------------------------------------------------------
(* What the connection does. *)

\* A statement belongs to the open transaction, whoever sent it.
Execute(r) ==
  IF open
  THEN pending' = [pending EXCEPT ![r] = @ + 1] /\ UNCHANGED stored
  ELSE stored' = [stored EXCEPT ![r] = @ + 1] /\ UNCHANGED pending

Nothing == [r \in Request |-> 0]

-----------------------------------------------------------------------------
(* The driver. *)

\* run and transaction, from outside a transaction: behind everything else.
Ask(r, what) ==
  /\ request[r].pc = "idle"
  /\ stored[r] < MaxStored
  /\ request' = [request EXCEPT ![r] = [Idle EXCEPT !.pc = "queued", !.what = what]]
  /\ queue' = Append(queue, r)
  /\ UNCHANGED <<open, pending, stored>>

MyTurn(r, what) ==
  /\ request[r].pc = "queued" /\ request[r].what = what
  /\ queue # <<>> /\ Head(queue) = r

\* Mutant: a write does not wait for its turn.
WriteAtOnce(r) ==
  /\ request[r].pc = "queued" /\ request[r].what = "write"
  /\ Execute(r)
  /\ request' = [request EXCEPT ![r] = Idle]
  /\ queue' = SelectSeq(queue, LAMBDA q : q # r)
  /\ UNCHANGED open

Write(r) ==
  /\ MyTurn(r, "write")
  /\ Execute(r)
  /\ request' = [request EXCEPT ![r] = Idle]
  /\ queue' = Tail(queue)
  /\ UNCHANGED open

Begin(r) ==
  /\ MyTurn(r, "transaction")
  /\ open' = TRUE
  /\ request' = [request EXCEPT ![r].pc = "inside"]
  /\ UNCHANGED <<queue, pending, stored>>

\* The transaction's own statements go straight through ...
WriteInside(r) ==
  /\ request[r].pc = "inside" /\ request[r].writes < MaxWrites
  /\ Execute(r)
  /\ request' = [request EXCEPT ![r].writes = @ + 1]
  /\ UNCHANGED <<queue, open>>

\* Mutant: a transaction in a transaction takes its turn like any other.
NestInTurn(r) ==
  /\ request[r].pc = "inside" /\ request[r].depth < MaxDepth
  /\ request' = [request EXCEPT ![r].pc = "queued", ![r].depth = @ + 1]
  /\ queue' = Append(queue, r)
  /\ UNCHANGED <<open, pending, stored>>

\* ... and so does a transaction in it, which is part of it.
Nest(r) ==
  /\ request[r].pc = "inside" /\ request[r].depth < MaxDepth
  /\ request' = [request EXCEPT ![r].depth = @ + 1]
  /\ UNCHANGED <<queue, open, pending, stored>>

Unnest(r) ==
  /\ request[r].pc = "inside" /\ request[r].depth > 0
  /\ request' = [request EXCEPT ![r].depth = @ - 1]
  /\ UNCHANGED <<queue, open, pending, stored>>

\* The end of a transaction, and the turn of the next in the queue.
End(r) ==
  /\ request[r].pc = "inside"
  /\ open' = FALSE /\ pending' = Nothing
  /\ request' = [request EXCEPT ![r] = Idle]
  /\ queue' = Tail(queue)

Commit(r) ==
  /\ request[r].depth = 0
  /\ End(r)
  /\ stored' = [q \in Request |-> stored[q] + pending[q]]

\* An error at any depth.
Rollback(r) == End(r) /\ UNCHANGED stored

Step(r) == Write(r) \/ Begin(r) \/ WriteInside(r) \/ Nest(r) \/ Unnest(r) \/ Commit(r) \/ Rollback(r)

Next == \E r \in Request : Step(r) \/ \E what \in {"write", "transaction"} : Ask(r, what)

Spec == Init /\ [][Next]_vars

\* Work that has its turn goes on, and a transaction comes to its end.
Fairness == \A r \in Request : WF_vars(Write(r) \/ Begin(r)) /\ WF_vars(Commit(r) \/ Rollback(r))

FairSpec == Spec /\ Fairness

-----------------------------------------------------------------------------
(* What the driver promises. *)

\* "a write from outside the current transaction waits for it to finish instead
\* of being swept into (and rolled back with) somebody else's work": an open
\* transaction holds the writes of the request that runs it, all of them, and
\* nobody else's.
Isolated ==
  \A r \in Request : pending[r] = IF request[r].pc = "inside" THEN request[r].writes ELSE 0

\* Work is stored as a whole, and by nobody else's COMMIT: what a step stores is
\* all that one request has written since its turn came, which ends with it.
WholeWork ==
  [][\A r \in Request : stored'[r] # stored[r] =>
       /\ request[r].pc # "idle" /\ request'[r].pc = "idle"
       /\ stored'[r] = stored[r] + IF request[r].what = "write" THEN 1 ELSE request[r].writes]_vars

\* Everybody has a turn in the end.
Served == \A r \in Request : request[r].pc = "queued" ~> request[r].pc # "queued"
=============================================================================
