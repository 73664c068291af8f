------------------------------- MODULE Grants -------------------------------
(***************************************************************************)
(* One connection of an assistant (server/mcp/auth.ts): the code and the   *)
(* token pairs issued for its grant, their exchange, the calls made with   *)
(* them, and the revocation that withdraws it all.                         *)
(*                                                                         *)
(* Requests run at the same time, one database statement per step.  Token  *)
(* 0 is the code, tokens 1, 2, ... are the pairs in the order of issue.    *)
(* Expiry is a revocation by the clock, and is left out.                   *)
(***************************************************************************)
EXTENDS Naturals

CONSTANTS
  Request,   \* requests at the same time
  MaxPairs   \* bound: token pairs of the grant

Token == 0 .. MaxPairs

VARIABLES
  grant,     \* whether the grant is revoked
  access,    \* the access token of each pair
  refresh,   \* the code, and the refresh token of each pair
  request,
  outcome    \* calls answered: begun before the end of a revocation, or after it (history)

vars == <<grant, access, refresh, request, outcome>>

Idle == [pc |-> "idle", token |-> 0, late |-> FALSE]

TypeOK ==
  /\ grant \in {"none", "live", "revoked"}
  /\ access \in [Token -> {"none", "valid", "revoked"}]
  /\ refresh \in [Token -> {"none", "valid", "used", "revoked", "usedRevoked"}]
  /\ request \in [Request ->
       [pc : {"idle", "grant", "use", "access", "refresh", "revoke", "tokens", "call"}, token : Token, late : BOOLEAN]]
  /\ outcome \subseteq {"early", "late"}

Init ==
  /\ grant = "none"
  /\ access = [t \in Token |-> "none"] /\ refresh = [t \in Token |-> "none"]
  /\ request = [r \in Request |-> Idle]
  /\ outcome = {}

At(r, pc) == request[r].pc = pc
GoTo(r, pc) == request' = [request EXCEPT ![r].pc = pc]
Done(r) == request' = [request EXCEPT ![r] = Idle]
\* A revocation has ended: nobody is in the middle of the first one.
Withdrawn == grant = "revoked" /\ \A r \in Request : ~At(r, "tokens")

\* approveRequest.
Approve ==
  /\ grant = "none"
  /\ grant' = "live"
  /\ refresh' = [refresh EXCEPT ![0] = "valid"]
  /\ UNCHANGED <<access, request, outcome>>

-----------------------------------------------------------------------------
(* exchangeToken. *)

Seen(t) == refresh[t] # "none"
Spent(t) == IF t = 0 THEN refresh[t] \in {"used", "usedRevoked"} ELSE refresh[t] # "valid"

\* A code or a refresh token that was used before withdraws the grant.
Exchange(r, t) ==
  /\ At(r, "idle") /\ Seen(t)
  /\ request' = [request EXCEPT ![r] = [Idle EXCEPT !.pc = IF Spent(t) THEN "revoke" ELSE "grant", !.token = t]]
  /\ UNCHANGED <<grant, access, refresh, outcome>>

UseToken(t) ==
  refresh' = [refresh EXCEPT ![t] = IF @ \in {"revoked", "usedRevoked"} THEN "usedRevoked" ELSE "used"]

\* The grant is read after the token; a code is used up even if it is refused.
CheckGrant(r) ==
  /\ At(r, "grant")
  /\ IF grant = "live"
     THEN GoTo(r, "use") /\ UNCHANGED refresh
     ELSE Done(r) /\ IF request[r].token = 0 THEN UseToken(0) ELSE UNCHANGED refresh
  /\ UNCHANGED <<grant, access, outcome>>

Use(r) ==
  /\ At(r, "use")
  /\ UseToken(request[r].token)
  /\ GoTo(r, "access")
  /\ UNCHANGED <<grant, access, outcome>>

\* issueTokens, a pair at the next free number.
IssueAccess(r) ==
  /\ At(r, "access")
  /\ \E t \in Token \ {0} :
       /\ access[t] = "none" /\ \A u \in 1 .. t - 1 : access[u] # "none"
       /\ access' = [access EXCEPT ![t] = "valid"]
       /\ request' = [request EXCEPT ![r].pc = "refresh", ![r].token = t]
  /\ UNCHANGED <<grant, refresh, outcome>>

IssueRefresh(r) ==
  /\ At(r, "refresh")
  /\ refresh' = [refresh EXCEPT ![request[r].token] = "valid"]
  /\ Done(r)
  /\ UNCHANGED <<grant, access, outcome>>

-----------------------------------------------------------------------------
(* Revocation. *)

\* revokeConnectedApp, and revokeToken of a refresh token.
Disconnect(r) ==
  /\ At(r, "idle") /\ grant # "none"
  /\ GoTo(r, "revoke")
  /\ UNCHANGED <<grant, access, refresh, outcome>>

\* revokeToken of an access token.
RevokeAccess(r, t) ==
  /\ At(r, "idle") /\ access[t] # "none"
  /\ access' = [access EXCEPT ![t] = "revoked"]
  /\ UNCHANGED <<grant, refresh, request, outcome>>

\* revokeGrant: the grant first, then its tokens.
RevokeGrant(r) ==
  /\ At(r, "revoke")
  /\ grant' = "revoked"
  /\ GoTo(r, "tokens")
  /\ UNCHANGED <<access, refresh, outcome>>

RevokeTokens(r) ==
  /\ At(r, "tokens")
  /\ access' = [t \in Token |-> IF access[t] = "none" THEN "none" ELSE "revoked"]
  /\ refresh' = [t \in Token |->
       CASE refresh[t] = "none" -> "none" [] refresh[t] \in {"valid", "revoked"} -> "revoked" [] OTHER -> "usedRevoked"]
  /\ Done(r)
  /\ UNCHANGED <<grant, outcome>>

-----------------------------------------------------------------------------
(* resolveBearer. *)

Call(r, t) ==
  /\ At(r, "idle") /\ access[t] = "valid"
  /\ request' = [request EXCEPT ![r] = [pc |-> "call", token |-> t, late |-> Withdrawn]]
  /\ UNCHANGED <<grant, access, refresh, outcome>>

Answer(r) == outcome' = outcome \cup {IF request[r].late THEN "late" ELSE "early"}

\* Mutant: a token that is not revoked is good.
ResolveByToken(r) ==
  /\ At(r, "call")
  /\ Answer(r)
  /\ Done(r)
  /\ UNCHANGED <<grant, access, refresh>>

\* The grant is read after the token; one revoked since refuses the call.
Resolve(r) ==
  /\ At(r, "call")
  /\ IF grant = "live" THEN Answer(r) ELSE UNCHANGED outcome
  /\ Done(r)
  /\ UNCHANGED <<grant, access, refresh>>

Next ==
  \/ Approve
  \/ \E r \in Request :
       \/ CheckGrant(r) \/ Use(r) \/ IssueAccess(r) \/ IssueRefresh(r)
       \/ Disconnect(r) \/ RevokeGrant(r) \/ RevokeTokens(r) \/ Resolve(r)
       \/ \E t \in Token : Exchange(r, t) \/ RevokeAccess(r, t) \/ Call(r, t)

Spec == Init /\ [][Next]_vars

-----------------------------------------------------------------------------
(* What a revocation promises. *)

\* Once a revocation has ended no call is answered, not even one with a token
\* that an exchange already under way has issued since.
WithdrawnForGood == "late" \notin outcome
=============================================================================
