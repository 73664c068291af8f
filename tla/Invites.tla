------------------------------ MODULE Invites -------------------------------
(***************************************************************************)
(* One invite link (server/repositories/invites.ts) and the people who     *)
(* sign up with it at the same time (the accept route of                   *)
(* server/routes/invites.ts): numbered uses, their release when a sign-up  *)
(* fails, and the counter the link's status is judged by.                  *)
(***************************************************************************)
EXTENDS Naturals, FiniteSets, FiniteSetsExt

CONSTANTS
  Person,    \* the requests
  MaxUses,   \* max_uses of the link
  MaxTries,  \* the attempts of claimInviteUse
  MaxSeq     \* bound: numbers of uses

VARIABLES
  active,   \* neither revoked nor expired
  uses,     \* the column `uses`
  held,     \* invite_uses: who holds each number; {} or one person
  request,
  joined    \* who has an account

vars == <<active, uses, held, request, joined>>

Seq == 1 .. MaxSeq
Taken == {n \in Seq : held[n] # {}}

TypeOK ==
  /\ active \in BOOLEAN
  /\ uses \in 0 .. Cardinality(Person)
  /\ held \in [Seq -> SUBSET Person]
  /\ request \in [Person ->
       [pc : {"claim", "count", "insert", "won", "sync", "write", "create", "release", "done"},
        tries : 0 .. MaxTries, seq : 0 .. MaxSeq, uses : 0 .. Cardinality(Person), failed : BOOLEAN]]
  /\ joined \subseteq Person

Init ==
  /\ active = TRUE /\ uses = 0
  /\ held = [n \in Seq |-> {}]
  /\ request = [p \in Person |-> [pc |-> "claim", tries |-> 0, seq |-> 0, uses |-> 0, failed |-> FALSE]]
  /\ joined = {}

At(p, pc) == request[p].pc = pc
Set(p, to) == request' = [request EXCEPT ![p] = to]
GoTo(p, pc) == Set(p, [request[p] EXCEPT !.pc = pc])

-----------------------------------------------------------------------------
(* claimInviteUse. *)

Claim(p) ==
  /\ At(p, "claim")
  /\ GoTo(p, IF active /\ uses < MaxUses /\ request[p].tries < MaxTries THEN "count" ELSE "done")
  /\ UNCHANGED <<active, uses, held, joined>>

\* Mutant: the counter of the link is enough.
CountAny(p) ==
  /\ At(p, "count")
  /\ Set(p, [request[p] EXCEPT !.pc = "insert", !.seq = Max({0} \cup Taken) + 1])
  /\ Max({0} \cup Taken) < MaxSeq
  /\ UNCHANGED <<active, uses, held, joined>>

\* The next number is past the highest; the limit is on how many are held.
Count(p) ==
  /\ At(p, "count")
  /\ Max({0} \cup Taken) < MaxSeq
  /\ IF Cardinality(Taken) >= MaxUses
     THEN GoTo(p, "done")
     ELSE Set(p, [request[p] EXCEPT !.pc = "insert", !.seq = Max({0} \cup Taken) + 1])
  /\ UNCHANGED <<active, uses, held, joined>>

\* ON CONFLICT DO NOTHING.
Insert(p) ==
  /\ At(p, "insert")
  /\ held' = [held EXCEPT ![request[p].seq] = IF @ = {} THEN {p} ELSE @]
  /\ GoTo(p, "won")
  /\ UNCHANGED <<active, uses, joined>>

Won(p) ==
  /\ At(p, "won")
  /\ IF p \in held[request[p].seq]
     THEN GoTo(p, "sync")
     ELSE Set(p, [request[p] EXCEPT !.pc = "claim", !.tries = @ + 1])
  /\ UNCHANGED <<active, uses, held, joined>>

-----------------------------------------------------------------------------
(* syncUses, after a claim and after a release; and the sign-up between. *)

Sync(p) ==
  /\ At(p, "sync")
  /\ Set(p, [request[p] EXCEPT !.pc = "write", !.uses = Cardinality(Taken)])
  /\ UNCHANGED <<active, uses, held, joined>>

Write(p) ==
  /\ At(p, "write")
  /\ uses' = request[p].uses
  /\ GoTo(p, IF request[p].failed THEN "done" ELSE "create")
  /\ UNCHANGED <<active, held, joined>>

\* createUser, in a transaction: an account, or an error.
Create(p) ==
  /\ At(p, "create")
  /\ \/ joined' = joined \cup {p} /\ GoTo(p, "done")
     \/ UNCHANGED joined /\ Set(p, [request[p] EXCEPT !.pc = "release", !.failed = TRUE])
  /\ UNCHANGED <<active, uses, held>>

\* releaseInviteUse.
Release(p) ==
  /\ At(p, "release")
  /\ held' = [held EXCEPT ![request[p].seq] = @ \ {p}]
  /\ GoTo(p, "sync")
  /\ UNCHANGED <<active, uses, joined>>

\* The person tries again later, or somebody else with the link.
Retry(p) ==
  /\ At(p, "done") /\ p \notin joined
  /\ Set(p, [pc |-> "claim", tries |-> 0, seq |-> 0, uses |-> 0, failed |-> FALSE])
  /\ UNCHANGED <<active, uses, held, joined>>

\* revokeInvite, or the time comes.
Expire ==
  /\ active
  /\ active' = FALSE
  /\ UNCHANGED <<uses, held, request, joined>>

Step(p) ==
  Claim(p) \/ Count(p) \/ Insert(p) \/ Won(p) \/ Sync(p) \/ Write(p) \/ Create(p) \/ Release(p)

Next == Expire \/ \E p \in Person : Step(p) \/ Retry(p)

Spec == Init /\ [][Next]_vars

-----------------------------------------------------------------------------
(* What an invite promises. *)

\* "A single-use link cannot be used twice", however claims and releases
\* interleave.  A link for more may be used more often than it says: a number
\* that was counted before it was released can be taken afterwards.
UsedOnce == MaxUses = 1 => Cardinality(joined) <= 1
=============================================================================
