------------------------------ MODULE MCPagers ------------------------------
(***************************************************************************)
(* The pager in five settings, for TLC: every operation, one handler at a  *)
(* time, while policies and tickets are edited ("serial"); a timer beside  *)
(* escalations by hand and a person who acknowledges ("late"); triggers    *)
(* that overlap ("triggers"); passes that end before time moves on         *)
(* ("prompt"); and passes that are fair beside escalations by hand, edits  *)
(* and a crash ("live").                                                   *)
(*                                                                         *)
(* One behaviour explores one setting: `part` is chosen in the initial     *)
(* state, and the others stay as they are; their variables are 0 where no  *)
(* property looks at them then.                                            *)
(***************************************************************************)
EXTENDS Naturals, TLC

CONSTANTS j1, j2, j3, u1, u2, p1, p2, p3, None

VARIABLES
  part,
  sPages, sAttempts, sTicket, sLevels, sJobs, sSent, sLate, sAnnounced, sCrashes, sPassed,
  dPages, dAttempts, dTicket, dLevels, dJobs, dSent, dLate, dAnnounced, dCrashes, dPassed,
  tPages, tAttempts, tTicket, tLevels, tJobs, tSent, tLate, tAnnounced, tCrashes, tPassed,
  pPages, pAttempts, pTicket, pLevels, pJobs, pSent, pLate, pAnnounced, pCrashes, pPassed,
  lPages, lAttempts, lTicket, lLevels, lJobs, lSent, lLate, lAnnounced, lCrashes, lPassed

serial == <<sPages, sAttempts, sTicket, sLevels, sJobs, sSent, sLate, sAnnounced, sCrashes, sPassed>>
late == <<dPages, dAttempts, dTicket, dLevels, dJobs, dSent, dLate, dAnnounced, dCrashes, dPassed>>
triggers == <<tPages, tAttempts, tTicket, tLevels, tJobs, tSent, tLate, tAnnounced, tCrashes, tPassed>>
prompt == <<pPages, pAttempts, pTicket, pLevels, pJobs, pSent, pLate, pAnnounced, pCrashes, pPassed>>
live == <<lPages, lAttempts, lTicket, lLevels, lJobs, lSent, lLate, lAnnounced, lCrashes, lPassed>>

-----------------------------------------------------------------------------
(* The settings.  Delays are in minutes. *)

\* A push at once; with calls a minute in, repeated once; or with one call at once.
PushOnly == {[channel |-> "push", delay |-> 0]}
PushAndCall == {[channel |-> "push", delay |-> 0], [channel |-> "voice", delay |-> 1]}
BothAtOnce == {[channel |-> "push", delay |-> 0], [channel |-> "voice", delay |-> 0]}
Calls == {"voice"}

ShortDelays == [l \in 0 .. 1 |-> 1]
LongFirst == [l \in 0 .. 1 |-> IF l = 0 THEN 3 ELSE 2]
OneDelay == [l \in {0} |-> 1]

\* Level 0 reaches whoever is on call, or nobody; or one and then two; or one person.
SomebodyOrNobody == [l \in 0 .. 1 |-> IF l = 0 THEN {{}, {u1}} ELSE {{u1}}]
OneThenTwo == [l \in 0 .. 1 |-> IF l = 0 THEN {{u1}} ELSE {{u1, u2}}]
OneLevel == [l \in {0} |-> {{u1}}]

\* One handler for everything; a timer, escalations by hand, and a person; two that
\* trigger; a timer beside escalations by hand; the timer's alone.
Everything == [j \in {j1} |-> {"tick", "trigger", "acknowledge", "escalate", "autoResolve"}]
AmongOthers == j1 :> {"tick", "trigger"} @@ j2 :> {"escalate"} @@ j3 :> {"acknowledge"}
TwoTriggers == j1 :> {"trigger"} @@ j2 :> {"trigger", "acknowledge"}
TickBesideHaste == j1 :> {"tick", "trigger"} @@ j2 :> {"escalate"}
TimerOnly == [j \in {j1} |-> {"tick", "trigger"}]

Serial == INSTANCE PagerProps WITH
  Page <- {p1, p2}, Job <- {j1}, May <- Everything,
  User <- {u1}, Rule <- PushOnly, CallChannel <- Calls, VoiceMaxCalls <- 2, VoiceRepeat <- 1,
  MaxLevels <- 2, Delay <- ShortDelays, MaxAge <- 1, Reaches <- SomebodyOrNobody,
  RepeatCount <- 0, MaxCrashes <- 0, Edits <- TRUE, Prompt <- FALSE,
  pages <- sPages, attempts <- sAttempts, ticket <- sTicket, levels <- sLevels, jobs <- sJobs, sent <- sSent,
  late <- sLate, announced <- sAnnounced, crashes <- sCrashes, passed <- sPassed

\* Escalations by hand, of a policy of one level that is repeated.
Late == INSTANCE PagerProps WITH
  Page <- {p1}, Job <- {j1, j2, j3}, May <- AmongOthers,
  User <- {u1}, Rule <- BothAtOnce, CallChannel <- Calls, VoiceMaxCalls <- 1, VoiceRepeat <- 1,
  MaxLevels <- 1, Delay <- OneDelay, MaxAge <- 1, Reaches <- OneLevel,
  RepeatCount <- 1, MaxCrashes <- 0, Edits <- FALSE, Prompt <- FALSE,
  pages <- dPages, attempts <- dAttempts, ticket <- dTicket, levels <- dLevels, jobs <- dJobs, sent <- dSent,
  late <- dLate, announced <- dAnnounced, crashes <- dCrashes, passed <- dPassed

\* Two handlers that trigger, three ids, and nobody to notify.
Triggers == INSTANCE PagerProps WITH
  Page <- {p1, p2, p3}, Job <- {j1, j2}, May <- TwoTriggers,
  User <- {u1}, Rule <- {}, CallChannel <- Calls, VoiceMaxCalls <- 1, VoiceRepeat <- 1,
  MaxLevels <- 1, Delay <- OneDelay, MaxAge <- 1, Reaches <- OneLevel,
  RepeatCount <- 0, MaxCrashes <- 0, Edits <- FALSE, Prompt <- FALSE,
  pages <- tPages, attempts <- tAttempts, ticket <- tTicket, levels <- tLevels, jobs <- tJobs, sent <- tSent,
  late <- tLate, announced <- tAnnounced, crashes <- tCrashes, passed <- tPassed

Punctual == INSTANCE PagerProps WITH
  Page <- {p1}, Job <- {j1}, May <- TimerOnly,
  User <- {u1, u2}, Rule <- PushAndCall, CallChannel <- Calls, VoiceMaxCalls <- 2, VoiceRepeat <- 1,
  MaxLevels <- 2, Delay <- LongFirst, MaxAge <- 3, Reaches <- OneThenTwo,
  RepeatCount <- 1, MaxCrashes <- 0, Edits <- FALSE, Prompt <- TRUE,
  pages <- pPages, attempts <- pAttempts, ticket <- pTicket, levels <- pLevels, jobs <- pJobs, sent <- pSent,
  late <- pLate, announced <- pAnnounced, crashes <- pCrashes, passed <- pPassed

\* Passes beside escalations by hand, of a policy of one level that is repeated.
Live == INSTANCE PagerProps WITH
  Page <- {p1}, Job <- {j1, j2}, May <- TickBesideHaste,
  User <- {u1}, Rule <- PushOnly, CallChannel <- Calls, VoiceMaxCalls <- 2, VoiceRepeat <- 1,
  MaxLevels <- 1, Delay <- OneDelay, MaxAge <- 1, Reaches <- OneLevel,
  RepeatCount <- 1, MaxCrashes <- 1, Edits <- TRUE, Prompt <- FALSE,
  pages <- lPages, attempts <- lAttempts, ticket <- lTicket, levels <- lLevels, jobs <- lJobs, sent <- lSent,
  late <- lLate, announced <- lAnnounced, crashes <- lCrashes, passed <- lPassed

-----------------------------------------------------------------------------

NoLate ==
  /\ dPages = 0 /\ dAttempts = 0 /\ dTicket = 0 /\ dLevels = 0 /\ dJobs = 0 /\ dSent = 0
  /\ dLate = 0 /\ dAnnounced = 0 /\ dCrashes = 0 /\ dPassed = 0
NoTriggers ==
  /\ tPages = 0 /\ tAttempts = 0 /\ tTicket = 0 /\ tLevels = 0 /\ tJobs = 0 /\ tSent = 0
  /\ tLate = 0 /\ tAnnounced = 0 /\ tCrashes = 0 /\ tPassed = 0
NoPrompt ==
  /\ pPages = 0 /\ pAttempts = 0 /\ pTicket = 0 /\ pLevels = 0 /\ pJobs = 0 /\ pSent = 0
  /\ pLate = 0 /\ pAnnounced = 0 /\ pCrashes = 0 /\ pPassed = FALSE

MCInit ==
  /\ part \in {"serial", "late", "triggers", "prompt", "live"}
  /\ Serial!Init /\ Live!Init
  /\ IF part = "late" THEN Late!Init ELSE NoLate
  /\ IF part = "triggers" THEN Triggers!Init ELSE NoTriggers
  /\ IF part = "prompt" THEN Punctual!Init ELSE NoPrompt

MCNext ==
  \/ part = "serial" /\ Serial!Next /\ UNCHANGED <<part, late, triggers, prompt, live>>
  \/ part = "late" /\ Late!Next /\ UNCHANGED <<part, serial, triggers, prompt, live>>
  \/ part = "triggers" /\ Triggers!Next /\ UNCHANGED <<part, serial, late, prompt, live>>
  \/ part = "prompt" /\ Punctual!Next /\ UNCHANGED <<part, serial, late, triggers, live>>
  \/ part = "live" /\ Live!Next /\ UNCHANGED <<part, serial, late, triggers, prompt>>

\* The passes of the live setting are fair, as its module says.
MCFairness ==
  /\ \A j \in {j1, j2} : WF_live(part = "live" /\ Live!Tick(j)) /\ WF_live(part = "live" /\ Live!JobStep(j))
  /\ WF_live(part = "live" /\ Live!PassTime)

MCSpec == MCInit /\ [][MCNext]_<<part, serial, late, triggers, prompt, live>> /\ MCFairness

-----------------------------------------------------------------------------
(* The properties, each stated with the pager. *)

\* A page that has stopped gets at most one late notification of each handler.
LateBounded == part = "late" => Late!LateBounded

\* There are never more pages escalating than there are triggers at once.
PagesBounded == part = "triggers" => Triggers!PagesBounded

\* The pager implements module Escalation when its handlers do not overlap.
EscalationImplemented == Serial!ImplementsEscalation

\* Nothing due is left waiting when time moves on.
PunctualKeepsUp == Punctual!KeepsUp

\* A page is called exhausted only after everyone was tried at every level.
PunctualExhaustsFairly == part = "prompt" => Punctual!ExhaustsFairly

\* Every page stops in the end, however its policy and ticket are edited.
EveryPageStops == Live!EveryPageStops
=============================================================================
