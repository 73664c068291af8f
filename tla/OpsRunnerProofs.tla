-------------------------- MODULE OpsRunnerProofs ---------------------------
(***************************************************************************)
(* The lease is exclusive, for any number of processes and any durations,  *)
(* as long as a process has one renewal in flight at a time.               *)
(*                                                                         *)
(* The row is the witness: what a process remembers as leaderUntil never   *)
(* lies beyond the expires_at of a row that names the process.  To carry   *)
(* this through a renewal, the inductive invariant also says what the row  *)
(* holds between its statements, and that a renewal in flight will never   *)
(* shorten what its process already remembers.                             *)
(*                                                                         *)
(* What runs under the lease runs in one place: requests to the cron route *)
(* and the loops of the timer, while what they do fits into the lease.     *)
(*                                                                         *)
(* And a leader that dies is replaced in time, whoever else dies on the    *)
(* way, as long as one process lives.                                      *)
(***************************************************************************)
EXTENDS OpsRunnerProps, FiniteSetTheorems, TLAPS

\* A process has at most one renewal in flight.
OneCallPerProcess == \A c, d \in Call : Owner[c] = Owner[d] => c = d

\* A renewal in flight started no earlier than the one remembered.
RenewalExtends ==
  \A c \in Call : InFlight(c) /\ IsLeader(Owner[c]) => leaderFor[Owner[c]] <= ExpiryOf(c)

\* After its UPDATE the row that names this call's process is this call's row.
RowAfterUpdate ==
  \A c \in Call : call[c].pc = "read" /\ holder = Owner[c] => expiresIn >= ExpiryOf(c)

\* A lease read as held is still held until it expires.
RowAfterRead ==
  \A c \in Call : call[c].pc = "return" /\ call[c].held /\ ExpiryOf(c) > 0
                    => holder = Owner[c] /\ expiresIn >= ExpiryOf(c)

LeaseInv ==
  /\ TypeOK
  /\ RowBacksLeader
  /\ RenewalExtends
  /\ RowAfterUpdate
  /\ RowAfterRead

-----------------------------------------------------------------------------
USE NobodyAssumption, OwnerAssumption, CronAssumption, TimeAssumption

\* The variables keep their types: every step of a renewal, a loop, a crash and
\* the passing of time.
THEOREM TypeCorrect == Spec => []TypeOK
<1>1. Init => TypeOK
  BY DEF Init, TypeOK, IdleCall, Steps
<1>2. TypeOK /\ [Next]_vars => TypeOK'
  <2> SUFFICES ASSUME TypeOK, [Next]_vars PROVE TypeOK'
    OBVIOUS
  <2>1. ASSUME NEW c \in Call, TimerRenew(c) \/ CronRenew(c) PROVE TypeOK'
    <3>1. CASE TimerRenew(c)
      BY <3>1 DEF TimerRenew, Begin, TypeOK, Steps
    <3>2. CASE CronRenew(c)
      BY <3>2 DEF CronRenew, Begin, TypeOK, Steps
    <3> QED
      BY <2>1, <3>1, <3>2
  <2>2. ASSUME NEW c \in Call, Insert(c) PROVE TypeOK'
    BY <2>2 DEF Insert, TypeOK, Steps, ExpiryOf
  <2>3. ASSUME NEW c \in Call, Update(c) PROVE TypeOK'
    <3>1. holder' \in Instance \cup {Nobody} /\ expiresIn' \in Int
      BY <2>3 DEF Update, Matches, TypeOK, ExpiryOf
    <3>2. call' \in [Call -> [pc : Steps \cup {"idle", "working"}, age : Nat, held : BOOLEAN]]
      BY <2>3 DEF Update, Matches, TypeOK, Steps
    <3> QED
      BY <2>3, <3>1, <3>2 DEF Update, Matches, TypeOK
  <2>4. ASSUME NEW c \in Call, Read(c) PROVE TypeOK'
    <3>1. (holder = Owner[c]) \in BOOLEAN
      OBVIOUS
    <3> QED
      BY <2>4, <3>1 DEF Read, TypeOK, Steps
  <2>5. ASSUME NEW c \in Call, Return(c) PROVE TypeOK'
    <3>1. LeaderForAfter(c) \in 0 .. LeaseMs
      BY DEF LeaderForAfter, ExpiryOf, TypeOK
    <3> QED
      BY <2>5, <3>1 DEF Return, Works, TypeOK, Steps, IdleCall
  <2>6. ASSUME NEW c \in Call, Fail(c) PROVE TypeOK'
    BY <2>6 DEF Fail, TypeOK, Steps, IdleCall
  <2>7. ASSUME NEW c \in Call, EndCron(c) PROVE TypeOK'
    BY <2>7 DEF EndCron, TypeOK, Steps, IdleCall
  <2>8. ASSUME NEW i \in Instance, NEW l \in Loop, StartLoop(i, l) \/ EndLoop(i, l) PROVE TypeOK'
    BY <2>8 DEF StartLoop, EndLoop, TypeOK
  <2>9. ASSUME NEW i \in Instance, Crash(i) PROVE TypeOK'
    BY <2>9 DEF Crash, TypeOK, Steps, IdleCall
  <2>10. CASE Tick
    <3>1. leaderFor' \in [Instance -> 0 .. LeaseMs] /\ renewIn' \in [Instance -> Nat]
      BY <2>10 DEF Tick, TypeOK, Down
    <3>2. expiresIn' \in Int /\ idleFor' \in Nat
      BY <2>10 DEF Tick, TypeOK, Down
    <3>3. call' \in [Call -> [pc : Steps \cup {"idle", "working"}, age : Nat, held : BOOLEAN]]
      BY <2>10 DEF Tick, TypeOK, Age
    <3> QED
      BY <2>10, <3>1, <3>2, <3>3 DEF Tick, TypeOK
  <2>11. CASE UNCHANGED vars
    BY <2>11 DEF vars, TypeOK
  <2> QED
    BY <2>1, <2>2, <2>3, <2>4, <2>5, <2>6, <2>7, <2>8, <2>9, <2>10, <2>11 DEF Next
<1> QED
  BY <1>1, <1>2, PTL DEF Spec

-----------------------------------------------------------------------------
\* The strengthened lease invariant holds when the processes start.
LEMMA LeaseInvInit == Init => LeaseInv
  BY DEF Init, LeaseInv, TypeOK, RowBacksLeader, RenewalExtends, RowAfterUpdate,
         RowAfterRead, IsLeader, InFlight, IdleCall, Steps

\* The renewal timer and a cron request start a renewal that will never
\* shorten the process's memory of an earlier one.
LEMMA BeginKeepsLease ==
  ASSUME LeaseInv, NEW c \in Call, Begin(c), TypeOK'
  PROVE  LeaseInv'
<1>1. /\ call' = [call EXCEPT ![c] = [pc |-> "insert", age |-> 0, held |-> FALSE]]
      /\ UNCHANGED <<holder, expiresIn, leaderFor>>
  BY DEF Begin
<1>2. RowBacksLeader'
  BY <1>1 DEF LeaseInv, RowBacksLeader, IsLeader
<1>3. RenewalExtends'
  BY <1>1 DEF LeaseInv, RenewalExtends, IsLeader, InFlight, ExpiryOf, TypeOK
<1>4. RowAfterUpdate' /\ RowAfterRead'
  BY <1>1 DEF LeaseInv, RowAfterUpdate, RowAfterRead, ExpiryOf, TypeOK
<1> QED
  BY <1>2, <1>3, <1>4 DEF LeaseInv

\* Writing the row is harmless in the only two cases in which it happens: the
\* row is the process's own, or it has run out and backs no leader.
LEMMA WriteKeepsLease ==
  ASSUME OneCallPerProcess, LeaseInv, TypeOK',
         NEW c \in Call, InFlight(c), call[c].pc # "return",
         NEW next \in {"update", "read"},
         call' = [call EXCEPT ![c].pc = next],
         leaderFor' = leaderFor,
         holder' = Owner[c], expiresIn' = ExpiryOf(c),
         \/ holder = Owner[c]
         \/ expiresIn < 0
         \/ holder = Nobody
  PROVE  LeaseInv'
<1>1. \A d \in Call : d # c => call'[d] = call[d] /\ Owner[d] # Owner[c]
  BY DEF OneCallPerProcess, LeaseInv, TypeOK
<1>2. call'[c].age = call[c].age /\ call'[c].pc = next /\ call[c].age \in Nat
  BY DEF LeaseInv, TypeOK
<1>3. \A i \in Instance : IsLeader(i) => i = Owner[c]
  BY DEF LeaseInv, RowBacksLeader, TypeOK
<1>4. RowBacksLeader'
  BY <1>3 DEF LeaseInv, RowBacksLeader, RenewalExtends, IsLeader, ExpiryOf, TypeOK
<1>5. RenewalExtends'
  BY <1>1, <1>2 DEF LeaseInv, RenewalExtends, IsLeader, InFlight, ExpiryOf, Steps
<1>6. RowAfterUpdate'
  BY <1>1, <1>2 DEF LeaseInv, RowAfterUpdate, ExpiryOf, TypeOK
<1>7. RowAfterRead'
  <2> SUFFICES ASSUME NEW d \in Call, call'[d].pc = "return", call'[d].held, ExpiryOf(d)' > 0
               PROVE  FALSE
    BY DEF RowAfterRead
  <2>1. d # c
    BY <1>2
  <2>2. holder = Owner[d] /\ expiresIn >= ExpiryOf(d) /\ ExpiryOf(d) > 0
    BY <1>1, <2>1 DEF LeaseInv, RowAfterRead, ExpiryOf
  <2> QED
    BY <1>1, <2>1, <2>2 DEF LeaseInv, TypeOK, ExpiryOf
<1> QED
  BY <1>4, <1>5, <1>6, <1>7 DEF LeaseInv

\* A statement that leaves the row alone, or a renewal that ends in an error.
LEMMA SkipKeepsLease ==
  ASSUME LeaseInv, TypeOK', NEW c \in Call,
         \A d \in Call : d # c => call'[d] = call[d],
         UNCHANGED <<holder, expiresIn, leaderFor>>,
         call'[c].age = call[c].age,
         InFlight(c)' => InFlight(c),
         call'[c].pc = "read" => holder # Owner[c] \/ call[c].pc = "read",
         call'[c].pc = "return" => (holder = Owner[c] /\ call[c].pc = "read") \/ ~call'[c].held
  PROVE  LeaseInv'
<1>1. RowBacksLeader'
  BY DEF LeaseInv, RowBacksLeader, IsLeader
<1>2. RenewalExtends'
  BY DEF LeaseInv, RenewalExtends, IsLeader, InFlight, ExpiryOf
<1>3. RowAfterUpdate'
  BY DEF LeaseInv, RowAfterUpdate, ExpiryOf
<1>4. RowAfterRead'
  BY DEF LeaseInv, RowAfterUpdate, RowAfterRead, ExpiryOf
<1> QED
  BY <1>1, <1>2, <1>3, <1>4 DEF LeaseInv

\* Remembering the lease: the row is there, and no other renewal of the process
\* is in flight.
LEMMA ReturnKeepsLease ==
  ASSUME OneCallPerProcess, LeaseInv, TypeOK', NEW c \in Call, Return(c)
  PROVE  LeaseInv'
<1>1. \A d \in Call : d # c => call'[d] = call[d] /\ Owner[d] # Owner[c]
  BY DEF OneCallPerProcess, Return, LeaseInv, TypeOK
<1>2. ~InFlight(c)' /\ call'[c].pc # "return" /\ call'[c].pc # "read"
  BY DEF Return, Works, InFlight, Steps, IdleCall, LeaseInv, TypeOK
<1>3. \A i \in Instance : i # Owner[c] => leaderFor'[i] = leaderFor[i]
  BY DEF Return, Works, LeaseInv, TypeOK
<1>4. leaderFor'[Owner[c]] = LeaderForAfter(c)
  BY DEF Return, Works, LeaseInv, TypeOK
<1>5. RowBacksLeader'
  <2> SUFFICES ASSUME NEW i \in Instance, leaderFor'[i] > 0
               PROVE  holder = i /\ expiresIn >= leaderFor'[i]
    BY DEF RowBacksLeader, IsLeader, Return
  <2>1. CASE i = Owner[c]
    BY <2>1, <1>4 DEF Return, Works, LeaderForAfter, LeaseInv, RowAfterRead
  <2>2. CASE i # Owner[c]
    BY <2>2, <1>3 DEF LeaseInv, RowBacksLeader, IsLeader
  <2> QED
    BY <2>1, <2>2
<1>6. RenewalExtends'
  BY <1>1, <1>2, <1>3 DEF LeaseInv, RenewalExtends, InFlight, IsLeader, ExpiryOf
<1>7. RowAfterUpdate' /\ RowAfterRead'
  BY <1>1, <1>2 DEF LeaseInv, RowAfterUpdate, RowAfterRead, ExpiryOf, Return
<1> QED
  BY <1>5, <1>6, <1>7 DEF LeaseInv

\* Time runs at the same speed for the row, the memory and the renewals.
LEMMA TickKeepsLease ==
  ASSUME LeaseInv, TypeOK', Tick
  PROVE  LeaseInv'
<1>1. \A i \in Instance : IsLeader(i)' => IsLeader(i) /\ leaderFor'[i] = leaderFor[i] - 1
  BY DEF Tick, LeaseInv, TypeOK, IsLeader, Down
<1>2. \A n \in Int : n >= 0 /\ expiresIn >= n => expiresIn' >= n - 1
  BY DEF Tick, LeaseInv, TypeOK, Down
<1>3. \A c \in Call : /\ call'[c].pc = call[c].pc /\ call'[c].held = call[c].held
                      /\ InFlight(c) => call'[c].age = call[c].age + 1
  BY DEF Tick, LeaseInv, TypeOK, Age, InFlight, Steps
<1>4. RowBacksLeader'
  BY <1>1, <1>2 DEF LeaseInv, RowBacksLeader, TypeOK, Tick, IsLeader
<1>5. RenewalExtends'
  BY <1>1, <1>3 DEF LeaseInv, RenewalExtends, ExpiryOf, InFlight, TypeOK
<1>6. \A c \in Call : InFlight(c) =>
        ExpiryOf(c) \in Int /\ ExpiryOf(c)' = ExpiryOf(c) - 1 /\ call[c].age <= MaxStall
  <2> SUFFICES ASSUME NEW c \in Call, InFlight(c)
               PROVE  ExpiryOf(c) \in Int /\ ExpiryOf(c)' = ExpiryOf(c) - 1 /\ call[c].age <= MaxStall
    OBVIOUS
  <2>1. call[c].age \in Nat /\ call[c].age < MaxStall
    BY DEF Tick, LeaseInv, TypeOK
  <2> QED
    BY <2>1, <1>3 DEF ExpiryOf
<1>7. RowAfterUpdate'
  BY <1>3, <1>6 DEF LeaseInv, RowAfterUpdate, InFlight, Steps, Tick, Down, TypeOK
<1>8. RowAfterRead'
  BY <1>2, <1>3, <1>6 DEF LeaseInv, RowAfterRead, InFlight, Steps, Tick
<1> QED
  BY <1>4, <1>5, <1>7, <1>8 DEF LeaseInv

\* Every step of a renewal, a loop, a crash or the clock keeps the lease invariant.
LEMMA LeaseInvStep ==
  ASSUME OneCallPerProcess, LeaseInv, TypeOK', [Next]_vars
  PROVE  LeaseInv'
<1>1. ASSUME NEW c \in Call, TimerRenew(c) \/ CronRenew(c) PROVE LeaseInv'
  BY <1>1, BeginKeepsLease DEF TimerRenew, CronRenew
<1>2. ASSUME NEW c \in Call, Insert(c) PROVE LeaseInv'
  <2>1. CASE holder = Nobody
    <3>1. /\ InFlight(c) /\ call[c].pc # "return"
          /\ call' = [call EXCEPT ![c].pc = "update"]
          /\ leaderFor' = leaderFor /\ holder' = Owner[c] /\ expiresIn' = ExpiryOf(c)
      BY <1>2, <2>1 DEF Insert, InFlight, Steps
    <3> QED
      BY <2>1, <3>1, WriteKeepsLease
  <2>2. CASE holder # Nobody
    <3>1. /\ \A d \in Call : d # c => call'[d] = call[d]
          /\ call'[c].age = call[c].age /\ call'[c].pc = "update" /\ InFlight(c)
          /\ UNCHANGED <<holder, expiresIn, leaderFor>>
      BY <1>2, <2>2 DEF Insert, LeaseInv, TypeOK, InFlight, Steps
    <3> QED
      BY <3>1, SkipKeepsLease
  <2> QED
    BY <2>1, <2>2
<1>3. ASSUME NEW c \in Call, Update(c) PROVE LeaseInv'
  <2>0. call[c].age \in Nat /\ expiresIn \in Int
    BY DEF LeaseInv, TypeOK
  <2>1. CASE holder = Owner[c] \/ expiresIn < -call[c].age
    <3>1. /\ InFlight(c) /\ call[c].pc # "return"
          /\ call' = [call EXCEPT ![c].pc = "read"]
          /\ leaderFor' = leaderFor /\ holder' = Owner[c] /\ expiresIn' = ExpiryOf(c)
      BY <1>3, <2>1 DEF Update, Matches, InFlight, Steps
    <3>2. holder = Owner[c] \/ expiresIn < 0
      BY <2>0, <2>1
    <3> QED
      BY <3>1, <3>2, WriteKeepsLease
  <2>2. CASE ~(holder = Owner[c] \/ expiresIn < -call[c].age)
    <3>1. /\ \A d \in Call : d # c => call'[d] = call[d]
          /\ call'[c].age = call[c].age /\ call'[c].pc = "read" /\ InFlight(c)
          /\ UNCHANGED <<holder, expiresIn, leaderFor>>
      BY <1>3, <2>2 DEF Update, Matches, LeaseInv, TypeOK, InFlight, Steps
    <3> QED
      BY <3>1, <2>2, SkipKeepsLease
  <2> QED
    BY <2>1, <2>2
<1>4. ASSUME NEW c \in Call, Read(c) PROVE LeaseInv'
  <2>1. /\ \A d \in Call : d # c => call'[d] = call[d]
        /\ call'[c].age = call[c].age /\ call'[c].pc = "return" /\ InFlight(c)
        /\ call[c].pc = "read" /\ (call'[c].held => holder = Owner[c])
        /\ UNCHANGED <<holder, expiresIn, leaderFor>>
    BY <1>4 DEF Read, LeaseInv, TypeOK, InFlight, Steps
  <2> QED
    BY <2>1, SkipKeepsLease
<1>5. ASSUME NEW c \in Call, Return(c) PROVE LeaseInv'
  BY <1>5, ReturnKeepsLease
<1>6. ASSUME NEW c \in Call, Fail(c) \/ EndCron(c) PROVE LeaseInv'
  <2>1. /\ \A d \in Call : d # c => call'[d] = call[d]
        /\ call'[c] = IdleCall
        /\ UNCHANGED <<holder, expiresIn, leaderFor>>
    BY <1>6 DEF Fail, EndCron, LeaseInv, TypeOK
  <2> QED
    BY <2>1 DEF LeaseInv, RowBacksLeader, RenewalExtends, RowAfterUpdate,
                RowAfterRead, IdleCall, InFlight, IsLeader, ExpiryOf, Steps
<1>7. ASSUME NEW i \in Instance, NEW l \in Loop, StartLoop(i, l) \/ EndLoop(i, l) PROVE LeaseInv'
  BY <1>7 DEF StartLoop, EndLoop, LeaseInv, RowBacksLeader, RenewalExtends,
              RowAfterUpdate, RowAfterRead, InFlight, IsLeader, ExpiryOf
<1>8. ASSUME NEW i \in Instance, Crash(i) PROVE LeaseInv'
  <2>1. /\ UNCHANGED <<holder, expiresIn>>
        /\ \A j \in Instance : leaderFor'[j] = 0 \/ leaderFor'[j] = leaderFor[j]
        /\ \A c \in Call : call'[c] = IdleCall \/ call'[c] = call[c]
    BY <1>8 DEF Crash, LeaseInv, TypeOK
  <2> QED
    BY <2>1 DEF LeaseInv, RowBacksLeader, RenewalExtends, RowAfterUpdate,
                RowAfterRead, IdleCall, InFlight, IsLeader, ExpiryOf, Steps
<1>9. CASE Tick
  BY <1>9, TickKeepsLease
<1>10. CASE UNCHANGED vars
  BY <1>10 DEF vars, LeaseInv, RowBacksLeader, RenewalExtends, RowAfterUpdate,
               RowAfterRead, InFlight, IsLeader, ExpiryOf
<1> QED
  BY <1>1, <1>2, <1>3, <1>4, <1>5, <1>6, <1>7, <1>8, <1>9, <1>10 DEF Next

\* The inductive invariant holds, given that a process's renewals do not overlap.
THEOREM LeaseInvariant ==
  ASSUME OneCallPerProcess
  PROVE  Spec => []LeaseInv
<1>1. LeaseInv /\ TypeOK' /\ [Next]_vars => LeaseInv'
  BY LeaseInvStep
<1> QED
  BY <1>1, LeaseInvInit, TypeCorrect, PTL DEF Spec

\* What a process remembers is backed by the row, whatever the clock and the
\* other processes do.
THEOREM RowBacksMemory ==
  ASSUME OneCallPerProcess
  PROVE  Spec => []RowBacksLeader
<1>1. LeaseInv => RowBacksLeader
  BY DEF LeaseInv
<1> QED
  BY <1>1, LeaseInvariant, PTL

\* Two leaders would both be the one holder of the row.
LEMMA RowHasOneHolder == RowBacksLeader => OneLeader
  BY DEF RowBacksLeader, OneLeader

\* At most one process is the leader: the row has one holder.
THEOREM MutualExclusion ==
  ASSUME OneCallPerProcess
  PROVE  Spec => []OneLeader
  BY RowBacksMemory, RowHasOneHolder, PTL

\* A guarded loop starts only in the process the unexpired row names.
THEOREM LoopsStartLawfully ==
  ASSUME OneCallPerProcess
  PROVE  Spec => StartedByHolder
<1>1. LeaseInv /\ [Next]_vars =>
        [\A i \in Instance, l \in Loop :
           <<i, l>> \in looping' \ looping => holder = i /\ expiresIn > 0]_vars
  <2> SUFFICES ASSUME LeaseInv, Next, NEW i \in Instance, NEW l \in Loop,
                      <<i, l>> \in looping' \ looping
               PROVE  holder = i /\ expiresIn > 0
    OBVIOUS
  <2>1. PICK j \in Instance, m \in Loop : StartLoop(j, m)
    BY DEF Next, TimerRenew, CronRenew, Begin, Insert, Update, Read, Return, Fail, EndCron,
           EndLoop, Crash, Tick
  <2>2. j = i /\ IsLeader(i)
    BY <2>1 DEF StartLoop
  <2> QED
    BY <2>2 DEF LeaseInv, RowBacksLeader, IsLeader, TypeOK
<1> QED
  BY <1>1, LeaseInvariant, PTL DEF Spec, StartedByHolder

-----------------------------------------------------------------------------
(* The work of requests. *)

\* A renewal and the work after it are shorter than the lease.
WorkFits == MaxStall <= LeaseMs /\ MaxWork <= LeaseMs

\* No renewal, and no request at work, is older than the lease it asked for.
AgeBound == \A c \in Call : call[c].age <= LeaseMs

\* The row still names the process of a request that was told it holds it.
RowWhileHeld ==
  \A c \in Call : (call[c].pc = "return" /\ call[c].held) \/ call[c].pc = "working" =>
    holder = Owner[c] /\ expiresIn >= ExpiryOf(c)

CronInv == TypeOK /\ AgeBound /\ RowAfterUpdate /\ RowWhileHeld

\* A row that somebody holds, and that has not run out, is not written.
LEMMA WriteKeepsCron ==
  ASSUME OneCallPerProcess, CronInv, TypeOK', NEW c \in Call, NEW next \in {"update", "read"},
         call' = [call EXCEPT ![c].pc = next], holder' = Owner[c], expiresIn' = ExpiryOf(c),
         holder \in {Owner[c], Nobody} \/ expiresIn < 0
  PROVE  CronInv'
<1>1. /\ call'[c].pc = next /\ call'[c].age = call[c].age
      /\ \A d \in Call : d # c => call'[d] = call[d] /\ Owner[d] # Owner[c]
  BY DEF CronInv, TypeOK, OneCallPerProcess
<1>2. \A d \in Call : ExpiryOf(d)' = ExpiryOf(d) /\ ExpiryOf(d) \in Int /\ ExpiryOf(d) >= 0
  <2> SUFFICES ASSUME NEW d \in Call PROVE ExpiryOf(d)' = ExpiryOf(d) /\ ExpiryOf(d) \in Int /\ ExpiryOf(d) >= 0
    OBVIOUS
  <2>1. call[d].age \in Nat /\ call[d].age <= LeaseMs /\ call'[d].age = call[d].age
    BY <1>1 DEF CronInv, TypeOK, AgeBound
  <2> QED
    BY <2>1 DEF ExpiryOf
<1>3. AgeBound'
  BY <1>1 DEF CronInv, AgeBound
<1>4. RowAfterUpdate'
  BY <1>1, <1>2 DEF CronInv, RowAfterUpdate
<1>5. RowWhileHeld'
  <2> SUFFICES ASSUME NEW d \in Call, (call'[d].pc = "return" /\ call'[d].held) \/ call'[d].pc = "working" PROVE FALSE
    BY DEF RowWhileHeld
  <2>1. d # c
    BY <1>1
  <2>2. holder = Owner[d] /\ expiresIn >= ExpiryOf(d) /\ Owner[d] \in Instance
    BY <1>1, <2>1 DEF CronInv, RowWhileHeld
  <2> QED
    BY <1>1, <1>2, <2>1, <2>2 DEF CronInv, TypeOK
<1> QED
  BY <1>3, <1>4, <1>5 DEF CronInv

\* A step of one call that leaves the row alone.
LEMMA SkipKeepsCron ==
  ASSUME CronInv, TypeOK', NEW c \in Call, \A d \in Call : d # c => call'[d] = call[d],
         UNCHANGED <<holder, expiresIn>>,
         call'[c] = IdleCall \/ call'[c].age \in {0, call[c].age},
         call'[c].pc = "read" => holder # Owner[c],
         (call'[c].pc = "return" /\ call'[c].held) \/ call'[c].pc = "working" =>
           /\ call'[c].age = call[c].age
           /\ \/ call[c].pc = "read" /\ holder = Owner[c]
              \/ call[c].pc = "return" /\ call[c].held
  PROVE  CronInv'
<1>1. AgeBound'
  BY DEF CronInv, AgeBound, IdleCall, TypeOK
<1>2. RowAfterUpdate'
  BY DEF CronInv, RowAfterUpdate, ExpiryOf
<1>3. RowWhileHeld'
  BY DEF CronInv, RowAfterUpdate, RowWhileHeld, ExpiryOf
<1> QED
  BY <1>1, <1>2, <1>3 DEF CronInv

\* The row runs out no sooner than the age of the request reaches the lease.
LEMMA TickKeepsCron ==
  ASSUME WorkFits, CronInv, TypeOK', Tick
  PROVE  CronInv'
<1>1. \A c \in Call : /\ call'[c].pc = call[c].pc /\ call'[c].held = call[c].held
                      /\ call[c].pc = "idle" => call'[c] = call[c]
                      /\ call[c].pc # "idle" => call'[c].age = call[c].age + 1
  BY DEF Tick, CronInv, TypeOK, Age
<1>2. AgeBound'
  <2> SUFFICES ASSUME NEW c \in Call PROVE call'[c].age <= LeaseMs
    BY DEF AgeBound
  <2>1. CASE call[c].pc = "idle"
    BY <1>1, <2>1 DEF CronInv, AgeBound
  <2>2. CASE call[c].pc # "idle"
    <3>1. call[c].age \in Nat /\ (call[c].age < MaxStall \/ call[c].age < MaxWork)
      BY <2>2 DEF Tick, CronInv, TypeOK, InFlight
    <3> QED
      BY <1>1, <2>2, <3>1 DEF WorkFits
  <2> QED
    BY <2>1, <2>2
<1>3. UNCHANGED holder /\ expiresIn \in Int /\ expiresIn' \in Int /\ expiresIn' >= expiresIn - 1
  BY DEF Tick, CronInv, TypeOK, Down
<1>4. \A c \in Call : call[c].pc # "idle" => ExpiryOf(c)' = ExpiryOf(c) - 1 /\ ExpiryOf(c) \in Int
  BY <1>1 DEF ExpiryOf, CronInv, TypeOK
<1>5. RowAfterUpdate' /\ RowWhileHeld'
  BY <1>1, <1>3, <1>4 DEF CronInv, RowAfterUpdate, RowWhileHeld
<1> QED
  BY <1>2, <1>5 DEF CronInv

\* Every step keeps the invariant.
LEMMA CronInvStep ==
  ASSUME OneCallPerProcess, WorkFits, CronInv, TypeOK', [Next]_vars
  PROVE  CronInv'
<1>a. \A c \in Call : call[c].age \in Nat /\ expiresIn \in Int
  BY DEF CronInv, TypeOK
<1>1. ASSUME NEW c \in Call, TimerRenew(c) \/ CronRenew(c) PROVE CronInv'
  <2>1. call' = [call EXCEPT ![c] = [pc |-> "insert", age |-> 0, held |-> FALSE]] /\ UNCHANGED <<holder, expiresIn>>
    BY <1>1 DEF TimerRenew, CronRenew, Begin
  <2>2. /\ \A d \in Call : d # c => call'[d] = call[d]
        /\ call'[c].age = 0 /\ call'[c].pc = "insert"
    BY <2>1 DEF CronInv, TypeOK
  <2> QED
    BY <2>1, <2>2, SkipKeepsCron
<1>2. ASSUME NEW c \in Call, Insert(c) PROVE CronInv'
  <2>1. call' = [call EXCEPT ![c].pc = "update"]
    BY <1>2 DEF Insert
  <2>2. CASE holder = Nobody
    BY <1>2, <2>1, <2>2, WriteKeepsCron DEF Insert
  <2>3. CASE holder # Nobody
    <3>1. /\ \A d \in Call : d # c => call'[d] = call[d]
          /\ call'[c].age = call[c].age /\ call'[c].pc = "update" /\ UNCHANGED <<holder, expiresIn>>
      BY <1>2, <2>1, <2>3 DEF Insert, CronInv, TypeOK
    <3> QED
      BY <3>1, SkipKeepsCron
  <2> QED
    BY <2>2, <2>3
<1>3. ASSUME NEW c \in Call, Update(c) PROVE CronInv'
  <2>1. call' = [call EXCEPT ![c].pc = "read"]
    BY <1>3 DEF Update
  <2>2. CASE Matches(c)
    <3>1. holder = Owner[c] \/ expiresIn < 0
      BY <1>a, <2>2 DEF Matches
    <3> QED
      BY <1>3, <2>1, <2>2, <3>1, WriteKeepsCron DEF Update
  <2>3. CASE ~Matches(c)
    <3>1. /\ \A d \in Call : d # c => call'[d] = call[d]
          /\ call'[c].age = call[c].age /\ call'[c].pc = "read" /\ UNCHANGED <<holder, expiresIn>>
          /\ holder # Owner[c]
      BY <1>3, <2>1, <2>3 DEF Update, Matches, CronInv, TypeOK
    <3> QED
      BY <3>1, SkipKeepsCron
  <2> QED
    BY <2>2, <2>3
<1>4. ASSUME NEW c \in Call, Read(c) PROVE CronInv'
  <2>1. /\ \A d \in Call : d # c => call'[d] = call[d]
        /\ call'[c].age = call[c].age /\ call'[c].pc = "return" /\ call[c].pc = "read"
        /\ call'[c].held => holder = Owner[c]
        /\ UNCHANGED <<holder, expiresIn>>
    BY <1>4 DEF Read, CronInv, TypeOK
  <2> QED
    BY <2>1, SkipKeepsCron
<1>5. ASSUME NEW c \in Call, Return(c) PROVE CronInv'
  <2>1. /\ \A d \in Call : d # c => call'[d] = call[d]
        /\ call'[c] = IdleCall \/ (/\ call[c].held /\ call'[c].pc = "working"
                                   /\ call'[c].age = call[c].age)
        /\ call[c].pc = "return" /\ UNCHANGED <<holder, expiresIn>>
    BY <1>5 DEF Return, Works, CronInv, TypeOK
  <2>2. IdleCall.pc = "idle"
    BY DEF IdleCall
  <2> QED
    BY <2>1, <2>2, SkipKeepsCron
<1>6. ASSUME NEW c \in Call, Fail(c) \/ EndCron(c) PROVE CronInv'
  <2>1. /\ \A d \in Call : d # c => call'[d] = call[d]
        /\ call'[c] = IdleCall /\ UNCHANGED <<holder, expiresIn>>
    BY <1>6 DEF Fail, EndCron, CronInv, TypeOK
  <2>2. IdleCall.pc = "idle"
    BY DEF IdleCall
  <2> QED
    BY <2>1, <2>2, SkipKeepsCron
<1>7. ASSUME NEW i \in Instance, Crash(i) PROVE CronInv'
  <2>1. UNCHANGED <<holder, expiresIn>> /\ \A c \in Call : call'[c] = IdleCall \/ call'[c] = call[c]
    BY <1>7 DEF Crash, CronInv, TypeOK
  <2> QED
    BY <2>1 DEF CronInv, AgeBound, RowAfterUpdate, RowWhileHeld, IdleCall, ExpiryOf
<1>8. ASSUME UNCHANGED <<call, holder, expiresIn>> PROVE CronInv'
  BY <1>8 DEF CronInv, AgeBound, RowAfterUpdate, RowWhileHeld, ExpiryOf
<1>9. CASE Tick
  BY <1>9, TickKeepsCron
<1> QED
  BY <1>1, <1>2, <1>3, <1>4, <1>5, <1>6, <1>7, <1>8, <1>9 DEF Next, StartLoop, EndLoop, vars

\* Of the requests that different processes answer at most one does the work,
\* if a renewal and the work take no longer than the lease.
THEOREM OneRequestWorks ==
  ASSUME OneCallPerProcess, WorkFits
  PROVE  Spec => []OneCronWorks
<1>1. Init => CronInv
  BY DEF Init, CronInv, TypeOK, AgeBound, RowAfterUpdate, RowWhileHeld, IdleCall, Steps
<1>2. CronInv /\ TypeOK' /\ [Next]_vars => CronInv'
  BY CronInvStep
<1>3. CronInv => OneCronWorks
  BY DEF CronInv, RowWhileHeld, OneCronWorks, OneCallPerProcess
<1> QED
  BY <1>1, <1>2, <1>3, TypeCorrect, PTL DEF Spec

-----------------------------------------------------------------------------
(* The loops of timers that fire on time. *)

\* A lease outlasts the failures in a row that a process may have, and the
\* renewal after them.
RenewsInTime == (MaxFailures + 1) * TickMs + MaxStall <= LeaseMs

\* How much longer the row lasts for each failure that may yet come.
Spare(n) == (MaxFailures - n) * TickMs

\* A process that runs a loop or may start one.
Active(i) == i \in TimerInstance /\ (IsLeader(i) \/ \E l \in Loop : <<i, l>> \in looping)

\* The row names it, and lasts until it has renewed it.
Secure(i) ==
  /\ holder = i
  /\ \A c \in Call : Owner[c] = i =>
       /\ call[c].pc = "idle" => expiresIn >= Spare(failures[i]) + renewIn[i] + MaxStall
       /\ InFlight(c) => expiresIn >= Spare(failures[i]) + MaxStall - call[c].age
       /\ call[c].pc \in {"read", "return"} => expiresIn >= ExpiryOf(c)
       /\ call[c].pc = "return" => call[c].held

\* Where a timer's renewal stands between two of its beats.
OnTime(c) ==
  /\ InFlight(c) => /\ Owner[c] \in up
                    /\ call[c].age <= MaxStall
                    /\ c \notin CronCall => renewIn[Owner[c]] = TickMs - call[c].age
  /\ call[c].pc = "working" => c \in CronCall

Alive ==
  /\ \A i \in Instance : failures[i] <= MaxFailures /\ (IsLeader(i) => i \in up)
  /\ looping \subseteq (up \cap TimerInstance) \X Loop

LoopInv ==
  /\ LeaseInv /\ Alive
  /\ \A c \in Call : OnTime(c)
  /\ \A i \in Instance : Active(i) => Secure(i)

\* Failures use up what is spared for them.
LEMMA SpareIs ==
  ASSUME NEW n \in Nat
  PROVE  /\ Spare(n) \in Int
         /\ Spare(n) = Spare(n + 1) + TickMs
         /\ n <= MaxFailures => Spare(n) >= 0
         /\ RenewsInTime => Spare(0) + TickMs + MaxStall <= LeaseMs
<1>1. \A k \in Int : k * TickMs \in Int
  OBVIOUS
<1>2. MaxFailures - n \in Int /\ MaxFailures - (n + 1) \in Int
  OBVIOUS
<1>3. (MaxFailures - n) * TickMs = (MaxFailures - (n + 1)) * TickMs + TickMs
  OBVIOUS
<1>4. n <= MaxFailures => (MaxFailures - n) * TickMs >= 0
  <2> SUFFICES ASSUME n <= MaxFailures PROVE (MaxFailures - n) * TickMs >= 0
    OBVIOUS
  <2>1. MaxFailures - n \in Nat /\ TickMs \in Nat
    OBVIOUS
  <2>2. \A k, m \in Nat : k * m >= 0
    OBVIOUS
  <2> QED
    BY <2>1, <2>2
<1>5. RenewsInTime => (MaxFailures - 0) * TickMs + TickMs + MaxStall <= LeaseMs
  BY DEF RenewsInTime
<1> QED
  BY <1>1, <1>2, <1>3, <1>4, <1>5 DEF Spare

\* What a secure process has never runs out.
LEMMA SecureRow ==
  ASSUME LoopInv, OneCallPerProcess, NEW i \in Instance, Active(i)
  PROVE  expiresIn \in Int /\ expiresIn >= 0 /\ holder = i
<1>1. PICK c \in Call : Owner[c] = i /\ c \notin CronCall
  BY DEF Active, TimerInstance
<1>2. /\ failures[i] \in Nat /\ failures[i] <= MaxFailures /\ renewIn[i] \in Nat /\ expiresIn \in Int
      /\ call[c].age \in Nat /\ call[c].pc \in Steps \cup {"idle", "working"}
  BY DEF LoopInv, LeaseInv, TypeOK, Alive
<1>3. Spare(failures[i]) \in Int /\ Spare(failures[i]) >= 0
  BY <1>2, SpareIs
<1>4. Secure(i) /\ OnTime(c)
  BY DEF LoopInv
<1> QED
  BY <1>1, <1>2, <1>3, <1>4 DEF Secure, OnTime, InFlight

\* The most that can ever be needed is spared at first.
LEMMA SpareAtFirst ==
  ASSUME NEW n \in Nat, n <= MaxFailures, RenewsInTime
  PROVE  Spare(n) \in Int /\ Spare(n) + TickMs + MaxStall <= LeaseMs
<1>1. MaxFailures - n \in Nat /\ n * TickMs \in Nat /\ MaxFailures * TickMs \in Nat
  BY DEF Spare
<1>2. Spare(n) = MaxFailures * TickMs - n * TickMs
  BY DEF Spare
<1>3. (MaxFailures + 1) * TickMs = MaxFailures * TickMs + TickMs
  OBVIOUS
<1> QED
  BY <1>1, <1>2, <1>3 DEF RenewsInTime

\* A timer's renewal is the only one of its process.
LEMMA ActiveCall ==
  ASSUME OneCallPerProcess, NEW i \in Instance, i \in TimerInstance, NEW c \in Call, Owner[c] = i
  PROVE  c \notin CronCall
BY DEF OneCallPerProcess, TimerInstance

\* A process that a step leaves alone is as secure as it was.
LEMMA OtherSecure ==
  ASSUME LoopInv, NEW i \in Instance, Secure(i), UNCHANGED <<holder, expiresIn>>,
         failures'[i] = failures[i], renewIn'[i] = renewIn[i],
         \A c \in Call : Owner[c] = i => call'[c] = call[c]
  PROVE  Secure(i)'
BY DEF Secure, InFlight, ExpiryOf

\* A step of one renewal, after which its own process is secure if it is active.
LEMMA CallLoop ==
  ASSUME OneCallPerProcess, LoopInv, LeaseInv', NEW c \in Call, NEW s,
         call' = [call EXCEPT ![c] = s],
         \A i \in Instance : i # Owner[c] =>
            leaderFor'[i] = leaderFor[i] /\ failures'[i] = failures[i] /\ renewIn'[i] = renewIn[i],
         UNCHANGED <<up, looping>>,
         UNCHANGED <<holder, expiresIn>> \/ \A i \in Instance : i # Owner[c] => ~Active(i),
         failures'[Owner[c]] <= MaxFailures, leaderFor'[Owner[c]] > 0 => Owner[c] \in up,
         OnTime(c)', Active(Owner[c])' => Secure(Owner[c])'
  PROVE  LoopInv'
<1>1. \A d \in Call : d # c => call'[d] = call[d] /\ Owner[d] # Owner[c]
  BY DEF OneCallPerProcess, LoopInv, LeaseInv, TypeOK
<1>2. \A d \in Call : OnTime(d)'
  BY <1>1 DEF LoopInv, OnTime, InFlight
<1>3. \A i \in Instance : i # Owner[c] => (Active(i)' => Active(i))
  BY DEF Active, IsLeader
<1>4. ASSUME NEW i \in Instance, i # Owner[c], Active(i)' PROVE Secure(i)'
  <2>1. Active(i) /\ Secure(i)
    BY <1>3, <1>4 DEF LoopInv
  <2>2. UNCHANGED <<holder, expiresIn>>
    BY <1>4, <2>1
  <2> QED
    BY <1>1, <1>4, <2>1, <2>2, OtherSecure
<1>5. Alive'
  BY DEF LoopInv, Alive, IsLeader
<1> QED
  BY <1>2, <1>4, <1>5 DEF LoopInv

\* The beats of a timer, and requests, start renewals.
LEMMA BeginLoop ==
  ASSUME OneCallPerProcess, LoopInv, LeaseInv', NEW c \in Call, TimerRenew(c) \/ CronRenew(c)
  PROVE  LoopInv'
<1> DEFINE o == Owner[c]
           s == [pc |-> "insert", age |-> 0, held |-> FALSE]
<1>1. /\ call[c].pc = "idle" /\ o \in up /\ o \in Instance /\ call' = [call EXCEPT ![c] = s]
      /\ UNCHANGED <<up, holder, expiresIn, leaderFor, failures, looping>>
      /\ call'[c] = s /\ failures[o] \in Nat /\ failures[o] <= MaxFailures
  BY DEF TimerRenew, CronRenew, Begin, LoopInv, LeaseInv, TypeOK, Alive
<1>2. s.pc = "insert" /\ s.age = 0
  OBVIOUS
<1> HIDE DEF s
<1>3. /\ \A i \in Instance : i # o => renewIn'[i] = renewIn[i]
      /\ c \notin CronCall => renewIn[o] = 0 /\ renewIn'[o] = TickMs
  BY <1>1 DEF TimerRenew, CronRenew, LoopInv, LeaseInv, TypeOK
<1>4. OnTime(c)'
  BY <1>1, <1>2, <1>3 DEF OnTime
<1>5. ASSUME Active(o)' PROVE Secure(o)'
  <2>1. Active(o) /\ c \notin CronCall
    BY <1>1, <1>5, ActiveCall DEF Active, IsLeader
  <2>2. holder = o /\ expiresIn >= Spare(failures[o]) + MaxStall
    BY <1>1, <1>3, <2>1, SpareIs DEF LoopInv, Secure
  <2>3. \A d \in Call : Owner[d] = o => d = c
    BY DEF OneCallPerProcess
  <2>4. Spare(failures[o]) \in Int
    BY <1>1, SpareIs
  <2> QED
    BY <1>1, <1>2, <2>2, <2>3, <2>4 DEF Secure, InFlight, Steps
<1> QED
  BY <1>1, <1>3, <1>4, <1>5, CallLoop DEF LoopInv, Alive, IsLeader

\* No statement of another process takes the row of an active one.
LEMMA RenewLoop ==
  ASSUME OneCallPerProcess, RenewsInTime, LoopInv, LeaseInv', NEW c \in Call, Insert(c) \/ Update(c) \/ Read(c)
  PROVE  LoopInv'
<1> DEFINE o == Owner[c]
<1>1. PICK s : /\ call' = [call EXCEPT ![c] = s] /\ s.age = call[c].age /\ s.pc \in {"update", "read", "return"}
               /\ s.pc = "return" => s.held = (holder = o)
  <2>1. CASE Insert(c) \/ Update(c)
    <3>1. PICK pc \in {"update", "read"} : call' = [call EXCEPT ![c].pc = pc]
      BY <2>1 DEF Insert, Update
    <3>2. call' = [call EXCEPT ![c] = [call[c] EXCEPT !.pc = pc]]
      BY <3>1
    <3>3. [call[c] EXCEPT !.pc = pc].age = call[c].age /\ [call[c] EXCEPT !.pc = pc].pc = pc
      BY DEF LoopInv, LeaseInv, TypeOK
    <3> QED
      BY <3>2, <3>3
  <2>2. CASE Read(c)
    <3> DEFINE s == [pc |-> "return", age |-> call[c].age, held |-> holder = o]
    <3>1. call' = [call EXCEPT ![c] = s]
      BY <2>2 DEF Read
    <3>2. s.age = call[c].age /\ s.pc = "return" /\ s.held = (holder = o)
      OBVIOUS
    <3> QED
      BY <3>1, <3>2
  <2> QED
    BY <2>1, <2>2
<1>2. /\ call'[c] = s /\ InFlight(c) /\ o \in Instance /\ call[c].age \in Nat
      /\ failures[o] \in Nat /\ failures[o] <= MaxFailures
      /\ UNCHANGED <<up, leaderFor, failures, renewIn, looping>>
  BY <1>1 DEF Insert, Update, Read, LoopInv, LeaseInv, TypeOK, Alive, InFlight, Steps
<1>3. OnTime(c)'
  BY <1>1, <1>2 DEF LoopInv, OnTime, InFlight, Steps
<1>4. \/ UNCHANGED <<holder, expiresIn>> /\ (s.pc = "read" => holder # o)
      \/ UNCHANGED <<holder, expiresIn>> /\ call[c].pc = "read" /\ s.pc = "return"
      \/ /\ holder' = o /\ expiresIn' = ExpiryOf(c) /\ \A i \in Instance : i # o => ~Active(i)
         /\ Insert(c) => holder = Nobody
  <2>1. CASE Read(c)
    BY <1>1, <2>1 DEF Read, LoopInv, LeaseInv, TypeOK
  <2>2. CASE Insert(c)
    <3>1. \A i \in Instance : holder = Nobody => ~Active(i)
      BY SecureRow
    <3>2. s.pc = "update"
      BY <1>1, <2>2 DEF Insert, LoopInv, LeaseInv, TypeOK
    <3> QED
      BY <2>2, <3>1, <3>2 DEF Insert
  <2>3. CASE Update(c) /\ Matches(c)
    <3>1. ASSUME NEW i \in Instance, i # o, Active(i) PROVE FALSE
      <4>1. expiresIn \in Int /\ expiresIn >= 0 /\ holder = i
        BY <3>1, SecureRow
      <4> QED
        BY <1>2, <2>3, <3>1, <4>1 DEF Matches
    <3>2. ~Insert(c)
      BY <2>3 DEF Insert, Update
    <3> QED
      BY <2>3, <3>1, <3>2 DEF Update
  <2>4. CASE Update(c) /\ ~Matches(c)
    BY <2>4 DEF Update, Matches
  <2> QED
    BY <2>1, <2>2, <2>3, <2>4
<1>5. ASSUME Active(o)' PROVE Secure(o)'
  <2>1. Active(o) /\ Secure(o) /\ OnTime(c)
    BY <1>2, <1>5 DEF Active, IsLeader, LoopInv
  <2>2. \A d \in Call : Owner[d] = o => d = c
    BY DEF OneCallPerProcess
  <2>3. holder = o /\ expiresIn >= Spare(failures[o]) + MaxStall - call[c].age /\ holder # Nobody
    BY <1>2, <2>1 DEF Secure
  <2>4. Spare(failures[o]) \in Int /\ Spare(failures[o]) + TickMs + MaxStall <= LeaseMs
    BY <1>2, SpareAtFirst
  <2>5. holder' = o /\ expiresIn' >= Spare(failures[o]) + MaxStall - call[c].age
    BY <1>2, <1>4, <2>3, <2>4 DEF ExpiryOf
  <2>6. s.pc = "read" => expiresIn' >= ExpiryOf(c)
    BY <1>2, <1>4, <2>3 DEF ExpiryOf
  <2>7. s.pc = "return" => s.held /\ expiresIn' >= ExpiryOf(c)
    <3> SUFFICES ASSUME s.pc = "return" PROVE s.held /\ expiresIn' >= ExpiryOf(c)
      OBVIOUS
    <3>1. call[c].pc = "read" /\ UNCHANGED expiresIn
      BY <1>1, <1>2 DEF Insert, Update, Read, LoopInv, LeaseInv, TypeOK
    <3> QED
      BY <1>1, <2>1, <2>3, <3>1 DEF Secure
  <2>8. ExpiryOf(c)' = ExpiryOf(c)
    BY <1>1, <1>2 DEF ExpiryOf
  <2> QED
    BY <1>1, <1>2, <2>2, <2>5, <2>6, <2>7, <2>8 DEF Secure
<1>6. leaderFor'[o] > 0 => o \in up
  BY <1>2 DEF LoopInv, Alive, IsLeader
<1>7. UNCHANGED <<holder, expiresIn>> \/ \A i \in Instance : i # o => ~Active(i)
  BY <1>4
<1> QED
  BY <1>1, <1>2, <1>3, <1>5, <1>6, <1>7, CallLoop

\* A renewal that returns starts the next period with all that is spared, and
\* one that fails uses up a part of it.
LEMMA EndRenewLoop ==
  ASSUME OneCallPerProcess, RenewsInTime, LoopInv, LeaseInv', NEW c \in Call, Return(c) \/ Fail(c) \/ EndCron(c)
  PROVE  LoopInv'
<1> DEFINE o == Owner[c]
<1>1. /\ o \in Instance /\ call[c].age \in Nat /\ failures[o] \in Nat /\ failures[o] <= MaxFailures
      /\ expiresIn \in Int /\ LeaseMs \in Nat /\ TickMs \in Nat /\ MaxStall \in Nat /\ renewIn[o] \in Nat
  BY DEF LoopInv, LeaseInv, TypeOK, Alive
<1>a. UNCHANGED <<up, holder, expiresIn, renewIn, looping>>
  BY DEF Return, Fail, EndCron
<1>b. \A i \in Instance : i # o => leaderFor'[i] = leaderFor[i] /\ failures'[i] = failures[i]
  BY DEF Return, Fail, EndCron, LoopInv, LeaseInv, TypeOK
<1>2. PICK s : call' = [call EXCEPT ![c] = s] /\ call'[c] = s
               /\ (s = IdleCall \/ (c \in CronCall /\ s.pc = "working"))
  <2>1. CASE Return(c) /\ Works(c)
    <3>1. call' = [call EXCEPT ![c] = [call[c] EXCEPT !.pc = "working"]] /\ c \in CronCall
      BY <2>1 DEF Return, Works
    <3>2. [call[c] EXCEPT !.pc = "working"].pc = "working" /\ call \in [Call -> [pc : Steps \cup {"idle", "working"}, age : Nat, held : BOOLEAN]]
      BY DEF LoopInv, LeaseInv, TypeOK
    <3> QED
      BY <3>1, <3>2
  <2>2. CASE ~(Return(c) /\ Works(c))
    <3>1. call' = [call EXCEPT ![c] = IdleCall]
      BY <2>2 DEF Return, Fail, EndCron
    <3> QED
      BY <3>1 DEF LoopInv, LeaseInv, TypeOK
  <2> QED
    BY <2>1, <2>2
<1>3. IdleCall.pc = "idle"
  BY DEF IdleCall
<1>4. OnTime(c)'
  BY <1>2, <1>3 DEF OnTime, InFlight, Steps
<1>5. failures'[o] <= MaxFailures /\ (leaderFor'[o] > 0 => o \in up)
  <2>1. CASE Return(c)
    <3>1. failures'[o] = 0 /\ InFlight(c)
      BY <1>1, <2>1 DEF Return, LoopInv, LeaseInv, TypeOK, InFlight, Steps
    <3> QED
      BY <3>1 DEF LoopInv, OnTime
  <2>2. CASE Fail(c)
    BY <1>1, <2>2 DEF Fail, LoopInv, LeaseInv, TypeOK, InFlight, OnTime, Steps, Alive, IsLeader
  <2>3. CASE EndCron(c)
    BY <1>1, <2>3 DEF EndCron, LoopInv, Alive, IsLeader
  <2> QED
    BY <2>1, <2>2, <2>3
<1>6. ASSUME Active(o)' PROVE Secure(o)'
  <2>1. c \notin CronCall /\ s = IdleCall
    BY <1>1, <1>2, <1>6, ActiveCall DEF Active
  <2>2. \A d \in Call : Owner[d] = o => d = c
    BY DEF OneCallPerProcess
  <2>3. ~EndCron(c)
    BY <2>1 DEF LoopInv, OnTime, EndCron
  <2>4. InFlight(c) /\ renewIn[o] = TickMs - call[c].age
    BY <2>1, <2>3 DEF Return, Fail, LoopInv, OnTime, InFlight, Steps
  <2>5. CASE Return(c)
    <3>1. call[c].pc = "return" /\ failures'[o] = 0 /\ leaderFor'[o] = LeaderForAfter(c)
      BY <1>1, <2>5 DEF Return, LoopInv, LeaseInv, TypeOK
    <3>2. holder = o /\ expiresIn >= ExpiryOf(c)
      <4>1. CASE Active(o)
        BY <3>1, <4>1, <1>1 DEF LoopInv, Secure
      <4>2. CASE ~Active(o)
        <5>1. LeaderForAfter(c) > 0
          BY <1>6, <1>a, <3>1, <4>2 DEF Active, IsLeader
        <5> QED
          BY <3>1, <5>1 DEF LeaderForAfter, LoopInv, LeaseInv, RowAfterRead
      <4> QED
        BY <4>1, <4>2
    <3>3. Spare(0) \in Int /\ Spare(0) + TickMs + MaxStall <= LeaseMs
      BY SpareAtFirst
    <3>4. expiresIn >= Spare(failures'[o]) + renewIn[o] + MaxStall
      BY <1>1, <2>4, <3>1, <3>2, <3>3 DEF ExpiryOf
    <3> QED
      BY <1>2, <1>3, <1>a, <2>1, <2>2, <3>2, <3>4 DEF Secure, InFlight, Steps
  <2>6. CASE Fail(c)
    <3>1. failures'[o] = failures[o] + 1 /\ UNCHANGED leaderFor
      BY <1>1, <2>6 DEF Fail, LoopInv, LeaseInv, TypeOK
    <3>2. Active(o)
      BY <1>6, <1>a, <3>1 DEF Active, IsLeader
    <3>3. holder = o /\ expiresIn >= Spare(failures[o]) + MaxStall - call[c].age
      BY <1>1, <2>4, <3>2 DEF LoopInv, Secure
    <3>4. Spare(failures[o]) = Spare(failures[o] + 1) + TickMs /\ Spare(failures[o] + 1) \in Int
      <4>1. failures[o] + 1 \in Nat
        BY <1>1
      <4> QED
        BY <1>1, <4>1, SpareIs
    <3>5. expiresIn >= Spare(failures'[o]) + renewIn[o] + MaxStall
      BY <1>1, <2>4, <3>1, <3>3, <3>4
    <3> QED
      BY <1>2, <1>3, <1>a, <2>1, <2>2, <3>3, <3>5 DEF Secure, InFlight, Steps
  <2> QED
    BY <2>3, <2>5, <2>6
<1>7. \A i \in Instance : i # o => renewIn'[i] = renewIn[i]
  BY <1>a
<1> QED
  BY <1>2, <1>4, <1>5, <1>6, <1>7, <1>a, <1>b, CallLoop

\* While timers fire on time, every renewal is there before what is spared for
\* it is used up.
LEMMA TickLoop ==
  ASSUME OneCallPerProcess, Punctual, LoopInv, LeaseInv', Tick
  PROVE  LoopInv'
<1>1. \A c \in Call : /\ call'[c].pc = call[c].pc /\ call'[c].held = call[c].held /\ call[c].age \in Nat
                      /\ InFlight(c) => call'[c].age = call[c].age + 1 /\ call[c].age < MaxStall
  BY DEF Tick, LoopInv, LeaseInv, TypeOK, Age, InFlight, Steps
<1>2. \A i \in up \cap TimerInstance : renewIn[i] \in Nat /\ renewIn'[i] = renewIn[i] - 1
  BY DEF Tick, LoopInv, LeaseInv, TypeOK, Down
<1>3. /\ expiresIn \in Int /\ expiresIn' \in Int /\ expiresIn' >= expiresIn - 1
      /\ UNCHANGED <<up, holder, failures, looping>>
      /\ \A i \in Instance : leaderFor'[i] > 0 => leaderFor[i] > 0
  BY DEF Tick, LoopInv, LeaseInv, TypeOK, Down
<1>4. Alive'
  BY <1>3 DEF LoopInv, Alive, IsLeader
<1>5. ASSUME NEW c \in Call PROVE OnTime(c)'
  <2>1. OnTime(c) /\ (InFlight(c)' <=> InFlight(c))
    BY <1>1 DEF LoopInv, InFlight
  <2>2. ASSUME InFlight(c), c \notin CronCall PROVE renewIn'[Owner[c]] = TickMs - call'[c].age
    <3>1. Owner[c] \in up \cap TimerInstance /\ renewIn[Owner[c]] = TickMs - call[c].age
      BY <2>1, <2>2 DEF OnTime, TimerInstance
    <3> QED
      BY <1>1, <1>2, <2>2, <3>1
  <2>3. InFlight(c) => call'[c].age <= MaxStall
    BY <1>1
  <2> QED
    BY <1>1, <1>3, <2>1, <2>2, <2>3 DEF OnTime
<1>6. ASSUME NEW i \in Instance, Active(i)' PROVE Secure(i)'
  <2>1. Active(i) /\ Secure(i) /\ i \in up \cap TimerInstance
    BY <1>3, <1>6 DEF Active, IsLeader, LoopInv, Alive
  <2>2. failures'[i] = failures[i] /\ Spare(failures[i]) \in Int
    BY <1>3, SpareIs DEF LoopInv, LeaseInv, TypeOK
  <2>3. renewIn[i] \in Nat /\ renewIn'[i] = renewIn[i] - 1
    BY <1>2, <2>1
  <2>4. ASSUME NEW c \in Call, Owner[c] = i
        PROVE  /\ call'[c].pc = "idle" => expiresIn' >= Spare(failures'[i]) + renewIn'[i] + MaxStall
               /\ InFlight(c)' => expiresIn' >= Spare(failures'[i]) + MaxStall - call'[c].age
               /\ call'[c].pc \in {"read", "return"} => expiresIn' >= ExpiryOf(c)'
               /\ call'[c].pc = "return" => call'[c].held
    <3>1. /\ call[c].pc = "idle" => expiresIn >= Spare(failures[i]) + renewIn[i] + MaxStall
          /\ InFlight(c) => expiresIn >= Spare(failures[i]) + MaxStall - call[c].age
          /\ call[c].pc \in {"read", "return"} => expiresIn >= ExpiryOf(c)
          /\ call[c].pc = "return" => call[c].held
      BY <2>1, <2>4 DEF Secure
    <3>2. call'[c].pc = "idle" => expiresIn' >= Spare(failures'[i]) + renewIn'[i] + MaxStall
      BY <1>1, <1>3, <2>2, <2>3, <3>1
    <3>3. InFlight(c)' => expiresIn' >= Spare(failures'[i]) + MaxStall - call'[c].age
      BY <1>1, <1>3, <2>2, <3>1 DEF InFlight
    <3>4. call'[c].pc \in {"read", "return"} => expiresIn' >= ExpiryOf(c)'
      BY <1>1, <1>3, <3>1 DEF ExpiryOf, InFlight, Steps
    <3> QED
      BY <1>1, <3>1, <3>2, <3>3, <3>4
  <2> QED
    BY <1>3, <2>1, <2>4 DEF Secure
<1> QED
  BY <1>4, <1>5, <1>6 DEF LoopInv

\* A loop starts in a process that is secure already, and a process that dies
\* takes its loops with it.
LEMMA WorkLoop ==
  ASSUME OneCallPerProcess, LoopInv, LeaseInv',
         \/ \E i \in Instance, l \in Loop : StartLoop(i, l) \/ EndLoop(i, l)
         \/ \E i \in Instance : Crash(i)
         \/ UNCHANGED vars
  PROVE  LoopInv'
<1>1. ASSUME UNCHANGED <<up, holder, expiresIn, leaderFor, call, renewIn, failures>>,
             \A i \in Instance : Active(i)' => Active(i), looping' \subseteq (up \cap TimerInstance) \X Loop
      PROVE  LoopInv'
  BY <1>1 DEF LoopInv, Alive, OnTime, Secure, InFlight, IsLeader, ExpiryOf
<1>2. ASSUME NEW i \in Instance, NEW l \in Loop, StartLoop(i, l) PROVE LoopInv'
  <2>1. /\ i \in up \cap TimerInstance /\ leaderFor[i] > 0 /\ looping' = looping \cup {<<i, l>>}
        /\ UNCHANGED <<up, holder, expiresIn, leaderFor, call, renewIn, failures>>
    BY <1>2 DEF StartLoop, IsLeader
  <2>2. ASSUME NEW h \in Instance, Active(h)' PROVE Active(h)
    <3>1. CASE h = i
      BY <2>1, <3>1 DEF Active, IsLeader
    <3>2. CASE h # i
      <4>1. \A k \in Loop : <<h, k>> \in looping' => <<h, k>> \in looping
        BY <2>1, <3>2
      <4> QED
        BY <2>1, <2>2, <4>1 DEF Active, IsLeader
    <3> QED
      BY <3>1, <3>2
  <2>3. looping' \subseteq (up \cap TimerInstance) \X Loop
    BY <2>1 DEF LoopInv, Alive
  <2> QED
    BY <1>1, <2>1, <2>2, <2>3
<1>3. ASSUME NEW i \in Instance, NEW l \in Loop, EndLoop(i, l) PROVE LoopInv'
  BY <1>1, <1>3 DEF EndLoop, Active, IsLeader, LoopInv, Alive
<1>4. ASSUME NEW i \in Instance, Crash(i) PROVE LoopInv'
  <2>1. /\ up' = up \ {i} /\ leaderFor'[i] = 0 /\ looping' = looping \ ({i} \X Loop)
        /\ \A h \in Instance : h # i => leaderFor'[h] = leaderFor[h]
        /\ \A c \in Call : call'[c] = IF Owner[c] = i THEN IdleCall ELSE call[c]
        /\ UNCHANGED <<holder, expiresIn, renewIn, failures>>
    BY <1>4 DEF Crash, LoopInv, LeaseInv, TypeOK
  <2>2. IdleCall.pc = "idle"
    BY DEF IdleCall
  <2>3. Alive'
    <3>1. looping' \subseteq (up' \cap TimerInstance) \X Loop
      BY <2>1 DEF LoopInv, Alive
    <3> QED
      BY <2>1, <3>1 DEF LoopInv, Alive, IsLeader
  <2>4. \A c \in Call : OnTime(c)'
    BY <2>1, <2>2 DEF LoopInv, OnTime, InFlight, Steps
  <2>5. ASSUME NEW h \in Instance, Active(h)' PROVE Secure(h)'
    <3>1. h # i /\ Active(h)
      <4>1. \A k \in Loop : <<i, k>> \notin looping'
        BY <2>1
      <4>2. h # i
        <5> SUFFICES ASSUME h = i PROVE FALSE
          OBVIOUS
        <5>1. ~(leaderFor'[i] > 0)
          BY <2>1
        <5> QED
          BY <2>5, <4>1, <5>1 DEF Active, IsLeader
      <4>3. \A k \in Loop : <<h, k>> \in looping' => <<h, k>> \in looping
        BY <2>1
      <4>4. IsLeader(h)' => IsLeader(h)
        BY <2>1, <4>2 DEF IsLeader
      <4> QED
        BY <2>5, <4>2, <4>3, <4>4 DEF Active
    <3>2. Secure(h) /\ \A c \in Call : Owner[c] = h => call'[c] = call[c]
      BY <2>1, <3>1 DEF LoopInv
    <3> QED
      BY <2>1, <3>2, OtherSecure
  <2> QED
    BY <2>3, <2>4, <2>5 DEF LoopInv
<1>5. CASE UNCHANGED vars
  BY <1>1, <1>5 DEF vars, Active, IsLeader, LoopInv, Alive
<1> QED
  BY <1>2, <1>3, <1>4, <1>5

\* No process runs a loop at first.
LEMMA LoopInvInit == Init => LoopInv
<1> SUFFICES ASSUME Init PROVE LoopInv
  OBVIOUS
<1>1. LeaseInv /\ Alive /\ \A c \in Call : OnTime(c)
  BY LeaseInvInit DEF Init, Alive, IsLeader, OnTime, InFlight, IdleCall, Steps
<1>2. \A i \in Instance : ~Active(i)
  BY DEF Init, Active, IsLeader
<1> QED
  BY <1>1, <1>2 DEF LoopInv

\* Every step leaves the processes that run loops secure.
LEMMA LoopInvStep ==
  ASSUME OneCallPerProcess, Punctual, RenewsInTime, LoopInv, TypeOK', [Next]_vars
  PROVE  LoopInv'
<1>1. LeaseInv'
  BY LeaseInvStep DEF LoopInv
<1> QED
  BY <1>1, BeginLoop, RenewLoop, EndRenewLoop, TickLoop, WorkLoop DEF Next

\* However long a loop runs, no second process starts one meanwhile, if timers
\* fire on time and a lease outlasts the renewals that may fail in a row.
THEOREM OneProcessWorks ==
  ASSUME OneCallPerProcess, Punctual, RenewsInTime
  PROVE  Spec => []OneInstanceWorks
<1>1. LoopInv /\ TypeOK' /\ [Next]_vars => LoopInv'
  BY LoopInvStep
<1>2. LoopInv => OneInstanceWorks
  <2> SUFFICES ASSUME LoopInv, NEW x \in looping, NEW y \in looping PROVE x[1] = y[1]
    BY DEF OneInstanceWorks
  <2>1. \A z \in looping : holder = z[1]
    <3> SUFFICES ASSUME NEW z \in looping PROVE holder = z[1]
      OBVIOUS
    <3>1. z[1] \in Instance /\ z[1] \in TimerInstance /\ z[2] \in Loop /\ z = <<z[1], z[2]>>
      BY DEF LoopInv, Alive, LeaseInv, TypeOK
    <3> QED
      BY <3>1 DEF LoopInv, Active, Secure
  <2> QED
    BY <2>1
<1> QED
  BY <1>1, <1>2, LoopInvInit, TypeCorrect, PTL DEF Spec

-----------------------------------------------------------------------------
(* A leader that dies is replaced.  The row is kept by whoever lives, and    *)
(* each process that lives asks for it in time once it is free.              *)

\* No requests renew, every process has its timer, and they cannot all die.
AllHaveTimers == CronCall = {} /\ \A i \in Instance : \E c \in Call : Owner[c] = i
SomeoneLives == Cardinality(Instance) \in Nat /\ MaxCrashes < Cardinality(Instance)

\* The longest it takes until the process of this renewal has asked again and
\* has its answer, if nothing but the failures that may yet come holds it up.
Wait(c) ==
  Spare(failures[Owner[c]]) + MaxStall + IF call[c].pc = "idle" THEN renewIn[Owner[c]] ELSE -call[c].age

\* The same for a renewal that finds the row taken: it forgets its failures.
WaitAgain(c) == Spare(0) + TickMs + MaxStall - call[c].age

\* Whoever has the row and lives keeps it.
KeptByHolder == \A i \in up : holder = i => Secure(i)

\* A holder that lives leads already, or is about to find out.
HolderFindsOut ==
  \A c \in Call : Owner[c] \in up /\ holder = Owner[c] => IsLeader(Owner[c]) \/ idleFor + Wait(c) <= MaxIdle

\* A row that nobody alive holds runs out in a lease, and each process that
\* lives asks for it in time.
RowIsTakenOver ==
  holder \notin up =>
    /\ holder # Nobody /\ expiresIn >= -MaxStall => idleFor + expiresIn <= LeaseMs
    /\ \A c \in Call : Owner[c] \in up =>
         /\ idleFor + Wait(c) <= MaxIdle
         /\ call[c].pc \in {"read", "return"} => idleFor + WaitAgain(c) <= MaxIdle

TakeoverInv ==
  /\ LoopInv
  /\ up # {} /\ expiresIn <= LeaseMs
  /\ \A i \in Instance : renewIn[i] <= TickMs /\ (IsLeader(i) => idleFor = 0)
  /\ holder = Nobody => \A c \in Call : call[c].pc \in {"idle", "insert"}
  /\ KeptByHolder /\ HolderFindsOut /\ RowIsTakenOver

\* What the arithmetic of the proofs below rests on.
LEMMA WaitIs ==
  ASSUME LoopInv, AllHaveTimers, RenewsInTime, NEW c \in Call
  PROVE  /\ Owner[c] \in Instance /\ call[c].age \in Nat /\ renewIn[Owner[c]] \in Nat
         /\ failures[Owner[c]] \in Nat /\ failures[Owner[c]] <= MaxFailures
         /\ idleFor \in Nat /\ expiresIn \in Int
         /\ Spare(failures[Owner[c]]) \in Int /\ Spare(failures[Owner[c]]) >= 0
         /\ Spare(failures[Owner[c]]) <= Spare(0) /\ Spare(0) \in Int
         /\ Wait(c) \in Int /\ WaitAgain(c) \in Int
         /\ Owner[c] \in up => Wait(c) >= 0
         /\ MaxIdle = LeaseMs + Spare(0) + TickMs + MaxStall
         /\ MaxStall < LeaseMs
         /\ call[c].pc # "idle" => /\ InFlight(c) /\ Owner[c] \in up /\ call[c].age <= MaxStall
                                   /\ renewIn[Owner[c]] = TickMs - call[c].age
<1>1. /\ Owner[c] \in Instance /\ call[c].age \in Nat /\ renewIn[Owner[c]] \in Nat
      /\ failures[Owner[c]] \in Nat /\ failures[Owner[c]] <= MaxFailures
      /\ idleFor \in Nat /\ expiresIn \in Int /\ call[c].pc \in Steps \cup {"idle", "working"}
  BY DEF LoopInv, LeaseInv, TypeOK, Alive
<1>2. Spare(failures[Owner[c]]) \in Int /\ Spare(failures[Owner[c]]) >= 0 /\ Spare(0) \in Int
  BY <1>1, SpareIs
<1>3. Spare(failures[Owner[c]]) <= Spare(0)
  <2>1. \A n \in Nat : n <= MaxFailures => n * TickMs \in Nat /\ Spare(n) = MaxFailures * TickMs - n * TickMs
    BY DEF Spare
  <2> QED
    BY <1>1, <2>1 DEF Spare
<1>4. MaxIdle = LeaseMs + Spare(0) + TickMs + MaxStall
  <2>1. (MaxFailures + 1) * TickMs = MaxFailures * TickMs + TickMs /\ MaxFailures * TickMs \in Nat
    OBVIOUS
  <2> QED
    BY <2>1 DEF MaxIdle, Spare
<1>5. MaxStall < LeaseMs
  BY <1>2, SpareAtFirst, SpareIs
<1>6. call[c].pc # "idle" => /\ InFlight(c) /\ Owner[c] \in up /\ call[c].age <= MaxStall
                             /\ renewIn[Owner[c]] = TickMs - call[c].age
  BY <1>1 DEF LoopInv, OnTime, InFlight, AllHaveTimers, Steps
<1>7. Wait(c) \in Int /\ WaitAgain(c) \in Int /\ (Owner[c] \in up => Wait(c) >= 0)
  BY <1>1, <1>2, <1>6 DEF Wait, WaitAgain
<1> QED
  BY <1>1, <1>2, <1>3, <1>4, <1>5, <1>6, <1>7

\* The row of a holder that lives has not run out.
LEMMA KeptRow ==
  ASSUME TakeoverInv, AllHaveTimers, RenewsInTime, holder \in up
  PROVE  expiresIn >= 0
<1>1. holder \in Instance /\ Secure(holder)
  BY DEF TakeoverInv, KeptByHolder, LoopInv, LeaseInv, TypeOK
<1>2. PICK c \in Call : Owner[c] = holder
  BY <1>1 DEF AllHaveTimers
<1>3. call[c].pc = "idle" \/ InFlight(c)
  BY WaitIs DEF TakeoverInv
<1>4. /\ Spare(failures[holder]) \in Int /\ Spare(failures[holder]) >= 0 /\ renewIn[holder] \in Nat
      /\ call[c].age \in Nat /\ (InFlight(c) => call[c].age <= MaxStall) /\ expiresIn \in Int
  BY <1>2, WaitIs DEF TakeoverInv, InFlight, Steps
<1>5. /\ call[c].pc = "idle" => expiresIn >= Spare(failures[holder]) + renewIn[holder] + MaxStall
      /\ InFlight(c) => expiresIn >= Spare(failures[holder]) + MaxStall - call[c].age
  BY <1>1, <1>2 DEF Secure
<1> QED
  BY <1>3, <1>4, <1>5

\* A step of one renewal that leaves the row as it is.
LEMMA RowLeftAlone ==
  ASSUME TakeoverInv, OneCallPerProcess, LoopInv', NEW c \in Call, NEW s,
         call' = [call EXCEPT ![c] = s], UNCHANGED <<up, holder, expiresIn>>,
         \A i \in Instance : i # Owner[c] =>
            leaderFor'[i] = leaderFor[i] /\ failures'[i] = failures[i] /\ renewIn'[i] = renewIn[i],
         idleFor' = idleFor \/ idleFor' = 0, renewIn'[Owner[c]] <= TickMs,
         \A i \in Instance : IsLeader(i)' => idleFor' = 0,
         holder = Nobody => s.pc \in {"idle", "insert"},
         Owner[c] \in up,
         holder = Owner[c] => Secure(Owner[c])' /\ (IsLeader(Owner[c])' \/ idleFor' + Wait(c)' <= MaxIdle),
         holder \notin up => /\ idleFor' + Wait(c)' <= MaxIdle
                             /\ s.pc \in {"read", "return"} => idleFor' + WaitAgain(c)' <= MaxIdle,
         AllHaveTimers, RenewsInTime
  PROVE  TakeoverInv'
<1>1. /\ \A d \in Call : d # c => call'[d] = call[d] /\ Owner[d] # Owner[c]
      /\ call'[c] = s
  BY DEF OneCallPerProcess, TakeoverInv, LoopInv, LeaseInv, TypeOK
<1>2. \A d \in Call : d # c => Wait(d)' = Wait(d) /\ WaitAgain(d)' = WaitAgain(d) /\ Wait(d) \in Int /\ WaitAgain(d) \in Int
  BY <1>1, WaitIs DEF Wait, WaitAgain, TakeoverInv, LoopInv, LeaseInv, TypeOK
<1>3. idleFor \in Nat /\ MaxIdle \in Int /\ idleFor' \in Nat /\ idleFor' <= idleFor /\ expiresIn \in Int
  BY WaitIs DEF TakeoverInv
<1>4. KeptByHolder'
  <2> SUFFICES ASSUME NEW i \in up, holder = i, i # Owner[c] PROVE Secure(i)'
    BY DEF KeptByHolder
  <2>1. i \in Instance /\ Secure(i)
    BY DEF TakeoverInv, KeptByHolder, LoopInv, LeaseInv, TypeOK
  <2> QED
    BY <1>1, <2>1, OtherSecure DEF TakeoverInv
<1>5. HolderFindsOut'
  <2> SUFFICES ASSUME NEW d \in Call, d # c, Owner[d] \in up, holder = Owner[d], ~IsLeader(Owner[d])'
               PROVE  idleFor' + Wait(d)' <= MaxIdle
    BY DEF HolderFindsOut
  <2>1. ~IsLeader(Owner[d])
    BY <1>1 DEF IsLeader
  <2> QED
    BY <1>2, <1>3, <2>1 DEF TakeoverInv, HolderFindsOut
<1>6. RowIsTakenOver'
  <2> SUFFICES ASSUME holder \notin up PROVE RowIsTakenOver'
    BY DEF RowIsTakenOver
  <2>1. /\ holder # Nobody /\ expiresIn >= -MaxStall => idleFor + expiresIn <= LeaseMs
        /\ \A d \in Call : Owner[d] \in up =>
             /\ idleFor + Wait(d) <= MaxIdle
             /\ call[d].pc \in {"read", "return"} => idleFor + WaitAgain(d) <= MaxIdle
    BY DEF TakeoverInv, RowIsTakenOver
  <2>2. holder # Nobody /\ expiresIn >= -MaxStall => idleFor' + expiresIn <= LeaseMs
    BY <1>3, <2>1
  <2>3. \A d \in Call : d # c /\ Owner[d] \in up =>
          /\ idleFor' + Wait(d)' <= MaxIdle
          /\ call[d].pc \in {"read", "return"} => idleFor' + WaitAgain(d)' <= MaxIdle
    BY <1>2, <1>3, <2>1
  <2> QED
    BY <1>1, <2>2, <2>3 DEF RowIsTakenOver
<1>7. \A i \in Instance : renewIn'[i] <= TickMs
  BY DEF TakeoverInv
<1>8. holder = Nobody => \A d \in Call : call'[d].pc \in {"idle", "insert"}
  BY <1>1 DEF TakeoverInv
<1> QED
  BY <1>4, <1>5, <1>6, <1>7, <1>8 DEF TakeoverInv

\* A step of one renewal that writes the row, which was its own or free.
LEMMA RowTaken ==
  ASSUME TakeoverInv, OneCallPerProcess, AllHaveTimers, RenewsInTime, LoopInv', NEW c \in Call, NEW s,
         call' = [call EXCEPT ![c] = s], s.pc \in {"update", "read"}, s.age = call[c].age, InFlight(c),
         UNCHANGED <<up, leaderFor, failures, renewIn, looping, idleFor>>,
         holder' = Owner[c], expiresIn' = ExpiryOf(c),
         holder = Owner[c] \/ holder \notin up
  PROVE  TakeoverInv'
<1> DEFINE o == Owner[c]
<1>1. /\ \A d \in Call : Owner[d] = o => d = c
      /\ call'[c] = s /\ o # Nobody
  BY DEF OneCallPerProcess, TakeoverInv, LoopInv, LeaseInv, TypeOK
<1>2. /\ o \in Instance /\ o \in up /\ call[c].age \in Nat /\ Spare(failures[o]) \in Int /\ Spare(0) \in Int
      /\ Spare(failures[o]) <= Spare(0) /\ idleFor \in Nat /\ Wait(c) \in Int /\ call[c].pc # "idle"
      /\ MaxIdle = LeaseMs + Spare(0) + TickMs + MaxStall
  BY WaitIs DEF TakeoverInv, InFlight, Steps
<1>3. Wait(c)' = Wait(c) /\ ExpiryOf(c)' = ExpiryOf(c)
  BY <1>1, <1>2 DEF Wait, ExpiryOf
<1>4. Secure(o)'
  <2>1. Spare(failures[o]) + TickMs + MaxStall <= LeaseMs
    BY SpareAtFirst, WaitIs DEF TakeoverInv
  <2>2. expiresIn' >= Spare(failures[o]) + MaxStall - call[c].age
    BY <1>2, <2>1 DEF ExpiryOf
  <2>3. expiresIn' \in Int
    BY <1>2 DEF ExpiryOf
  <2> QED
    BY <1>1, <1>2, <1>3, <2>2, <2>3 DEF Secure, InFlight
<1>5. KeptByHolder'
  BY <1>4 DEF KeptByHolder
<1>6. IsLeader(o)' \/ idleFor' + Wait(c)' <= MaxIdle
  <2>1. CASE holder = o
    BY <1>2, <1>3, <2>1 DEF TakeoverInv, HolderFindsOut, IsLeader
  <2>2. CASE holder \notin up
    BY <1>2, <1>3, <2>2 DEF TakeoverInv, RowIsTakenOver
  <2> QED
    BY <2>1, <2>2
<1>7. HolderFindsOut'
  BY <1>1, <1>6 DEF HolderFindsOut
<1>8. RowIsTakenOver'
  BY <1>2 DEF RowIsTakenOver
<1>9. expiresIn' <= LeaseMs
  BY <1>2 DEF ExpiryOf
<1> QED
  BY <1>1, <1>5, <1>7, <1>8, <1>9 DEF TakeoverInv, IsLeader

\* The timer starts a renewal: nothing has been waited for in vain yet.
LEMMA BeginTakeover ==
  ASSUME TakeoverInv, OneCallPerProcess, AllHaveTimers, RenewsInTime, LoopInv', NEW c \in Call, TimerRenew(c) \/ CronRenew(c)
  PROVE  TakeoverInv'
<1> DEFINE o == Owner[c]
           s == [pc |-> "insert", age |-> 0, held |-> FALSE]
<1>1. /\ TimerRenew(c) /\ renewIn[o] = 0 /\ call[c].pc = "idle" /\ o \in up /\ call' = [call EXCEPT ![c] = s]
      /\ UNCHANGED <<up, holder, expiresIn, leaderFor, failures, looping, idleFor>>
  BY DEF TimerRenew, CronRenew, Begin, AllHaveTimers
<1>2. s.pc = "insert" /\ s.age = 0 /\ call'[c] = s
  BY <1>1 DEF TakeoverInv, LoopInv, LeaseInv, TypeOK
<1> HIDE DEF s
<1>3. /\ o \in Instance /\ Spare(failures[o]) \in Int /\ expiresIn \in Int /\ Wait(c) \in Int /\ idleFor \in Nat
  BY WaitIs DEF TakeoverInv
<1>4. /\ \A i \in Instance : i # o => renewIn'[i] = renewIn[i]
      /\ renewIn'[o] = TickMs
  BY <1>1, <1>3 DEF TimerRenew, TakeoverInv, LoopInv, LeaseInv, TypeOK
<1>5. Wait(c)' = Wait(c)
  BY <1>1, <1>2, <1>3 DEF Wait
<1>6. holder = o => Secure(o)' /\ (IsLeader(o)' \/ idleFor' + Wait(c)' <= MaxIdle)
  <2> SUFFICES ASSUME holder = o PROVE Secure(o)' /\ (IsLeader(o)' \/ idleFor' + Wait(c)' <= MaxIdle)
    OBVIOUS
  <2>1. Secure(o) /\ \A d \in Call : Owner[d] = o => d = c
    BY <1>1 DEF TakeoverInv, KeptByHolder, OneCallPerProcess
  <2>2. expiresIn >= Spare(failures[o]) + MaxStall
    BY <1>1, <1>3, <2>1 DEF Secure
  <2>3. Secure(o)'
    BY <1>1, <1>2, <1>3, <2>1, <2>2 DEF Secure, InFlight, Steps
  <2> QED
    BY <1>1, <1>5, <2>3 DEF TakeoverInv, HolderFindsOut, IsLeader
<1>7. holder \notin up => idleFor' + Wait(c)' <= MaxIdle
  BY <1>1, <1>5 DEF TakeoverInv, RowIsTakenOver
<1>8. \A i \in Instance : IsLeader(i)' => idleFor' = 0
  BY <1>1 DEF TakeoverInv, IsLeader
<1>9. \A i \in Instance : i # o => leaderFor'[i] = leaderFor[i] /\ failures'[i] = failures[i] /\ renewIn'[i] = renewIn[i]
  BY <1>1, <1>4
<1>10. holder = Nobody => s.pc \in {"idle", "insert"}
  BY <1>2
<1>11. s.pc \notin {"read", "return"} /\ renewIn'[o] <= TickMs
  BY <1>2, <1>4
<1> QED
  BY <1>1, <1>6, <1>7, <1>8, <1>9, <1>10, <1>11, RowLeftAlone

\* The statements of a renewal: the row is kept, taken, or found to be another's.
LEMMA StatementTakeover ==
  ASSUME TakeoverInv, OneCallPerProcess, AllHaveTimers, RenewsInTime, LoopInv', NEW c \in Call,
         Insert(c) \/ Update(c) \/ Read(c)
  PROVE  TakeoverInv'
<1> DEFINE o == Owner[c]
<1>0. call \in [Call -> [pc : Steps \cup {"idle", "working"}, age : Nat, held : BOOLEAN]]
  BY DEF TakeoverInv, LoopInv, LeaseInv, TypeOK
<1>1. PICK s : /\ call' = [call EXCEPT ![c] = s] /\ call'[c] = s /\ s.age = call[c].age
               /\ Insert(c) => s.pc = "update"
               /\ Update(c) => s.pc = "read"
               /\ Read(c) => s.pc = "return" /\ s.held = (holder = o)
  <2>1. CASE Insert(c)
    <3>1. call' = [call EXCEPT ![c] = [call[c] EXCEPT !.pc = "update"]] /\ ~Update(c) /\ ~Read(c)
      BY <2>1 DEF Insert, Update, Read
    <3> QED
      BY <1>0, <3>1
  <2>2. CASE Update(c)
    <3>1. call' = [call EXCEPT ![c] = [call[c] EXCEPT !.pc = "read"]] /\ ~Insert(c) /\ ~Read(c)
      BY <2>2 DEF Insert, Update, Read
    <3> QED
      BY <1>0, <3>1
  <2>3. CASE Read(c)
    <3> DEFINE s == [pc |-> "return", age |-> call[c].age, held |-> holder = o]
    <3>1. call' = [call EXCEPT ![c] = s] /\ ~Insert(c) /\ ~Update(c)
      BY <2>3 DEF Insert, Update, Read
    <3>2. s.age = call[c].age /\ s.pc = "return" /\ s.held = (holder = o) /\ call'[c] = s
      BY <1>0, <3>1
    <3> QED
      BY <3>1, <3>2
  <2> QED
    BY <2>1, <2>2, <2>3
<1>2. /\ InFlight(c) /\ UNCHANGED <<up, leaderFor, failures, renewIn, looping, idleFor>>
      /\ call[c].pc # "idle" /\ s.pc # "idle"
  BY <1>1 DEF Insert, Update, Read, InFlight, Steps
<1>3. /\ o \in Instance /\ o \in up /\ call[c].age \in Nat /\ call[c].age <= MaxStall /\ expiresIn \in Int
      /\ Spare(failures[o]) \in Int /\ idleFor \in Nat /\ Wait(c) \in Int /\ WaitAgain(c) \in Int
      /\ Spare(0) \in Int /\ MaxIdle = LeaseMs + Spare(0) + TickMs + MaxStall /\ renewIn[o] <= TickMs
  BY <1>2, WaitIs DEF TakeoverInv
<1>4. Wait(c)' = Wait(c) /\ WaitAgain(c)' = WaitAgain(c) /\ ExpiryOf(c)' = ExpiryOf(c)
  BY <1>1, <1>2, <1>3 DEF Wait, WaitAgain, ExpiryOf
<1>5. CASE (Insert(c) /\ holder = Nobody) \/ (Update(c) /\ Matches(c))
  <2>1. holder' = o /\ expiresIn' = ExpiryOf(c) /\ s.pc \in {"update", "read"}
    BY <1>1, <1>5 DEF Insert, Update
  <2>2. holder = o \/ holder \notin up
    <3>1. Nobody \notin up
      BY DEF TakeoverInv, LoopInv, LeaseInv, TypeOK
    <3>2. Matches(c) => holder = o \/ expiresIn < 0
      BY <1>3 DEF Matches
    <3> QED
      BY <1>3, <1>5, <3>1, <3>2, KeptRow
  <2> QED
    BY <1>1, <1>2, <2>1, <2>2, RowTaken
<1>6. CASE ~((Insert(c) /\ holder = Nobody) \/ (Update(c) /\ Matches(c)))
  <2>1. UNCHANGED <<holder, expiresIn>>
    BY <1>6 DEF Insert, Update, Read
  <2>2. /\ Update(c) => holder # o
        /\ Update(c) => expiresIn >= -call[c].age
    BY <1>3, <1>6 DEF Matches
  <2>3. holder # Nobody
    BY <1>6 DEF TakeoverInv, Insert, Update, Read
  <2>4. ASSUME holder = o PROVE Secure(o)' /\ (IsLeader(o)' \/ idleFor' + Wait(c)' <= MaxIdle)
    <3>1. Secure(o) /\ \A d \in Call : Owner[d] = o => d = c
      BY <1>3, <2>4 DEF TakeoverInv, KeptByHolder, OneCallPerProcess
    <3>2. expiresIn >= Spare(failures[o]) + MaxStall - call[c].age
      BY <1>2, <3>1 DEF Secure
    <3>3. s.pc \in {"read", "return"} => Read(c) /\ call[c].pc = "read" /\ s.held
      BY <1>1, <2>2, <2>4 DEF Insert, Update, Read
    <3>4. s.pc \in {"read", "return"} => expiresIn >= ExpiryOf(c)
      BY <3>1, <3>3 DEF Secure
    <3>5. Secure(o)'
      BY <1>1, <1>2, <1>3, <1>4, <2>1, <2>4, <3>1, <3>2, <3>3, <3>4 DEF Secure
    <3> QED
      BY <1>2, <1>3, <1>4, <2>4, <3>5 DEF TakeoverInv, HolderFindsOut, IsLeader
  <2>5. ASSUME holder \notin up
        PROVE  /\ idleFor' + Wait(c)' <= MaxIdle
               /\ s.pc \in {"read", "return"} => idleFor' + WaitAgain(c)' <= MaxIdle
    <3>1. idleFor + Wait(c) <= MaxIdle
      BY <1>3, <2>5 DEF TakeoverInv, RowIsTakenOver
    <3>2. CASE Insert(c)
      BY <1>1, <1>2, <1>4, <3>1, <3>2
    <3>3. CASE Update(c)
      <4>1. idleFor + expiresIn <= LeaseMs
        BY <1>3, <2>2, <2>3, <2>5, <3>3 DEF TakeoverInv, RowIsTakenOver
      <4>2. idleFor <= LeaseMs + call[c].age
        BY <1>3, <2>2, <3>3, <4>1
      <4>3. idleFor + WaitAgain(c) <= MaxIdle
        BY <1>3, <4>2 DEF WaitAgain
      <4> QED
        BY <1>2, <1>4, <3>1, <4>3
    <3>4. CASE Read(c)
      <4>1. call[c].pc = "read"
        BY <3>4 DEF Read
      <4>2. idleFor + WaitAgain(c) <= MaxIdle
        BY <1>3, <2>5, <4>1 DEF TakeoverInv, RowIsTakenOver
      <4> QED
        BY <1>2, <1>4, <3>1, <4>2
    <3> QED
      BY <3>2, <3>3, <3>4
  <2>6. \A i \in Instance : IsLeader(i)' => idleFor' = 0
    BY <1>2 DEF TakeoverInv, IsLeader
  <2> QED
    BY <1>1, <1>2, <1>3, <2>1, <2>3, <2>4, <2>5, <2>6, RowLeftAlone
<1> QED
  BY <1>5, <1>6

\* A renewal that returns makes its process the leader, or was told that the
\* row is another's; one that fails is made good for by what is spared.
LEMMA EndTakeover ==
  ASSUME TakeoverInv, OneCallPerProcess, AllHaveTimers, RenewsInTime, LoopInv', NEW c \in Call,
         Return(c) \/ Fail(c) \/ EndCron(c)
  PROVE  TakeoverInv'
<1> DEFINE o == Owner[c]
<1>1. call[c].pc # "idle"
  BY DEF Return, Fail, EndCron
<1>2. /\ o \in Instance /\ o \in up /\ call[c].age \in Nat /\ call[c].age <= MaxStall /\ expiresIn \in Int
      /\ Spare(failures[o]) \in Int /\ idleFor \in Nat /\ Wait(c) \in Int /\ WaitAgain(c) \in Int
      /\ Spare(0) \in Int /\ MaxIdle = LeaseMs + Spare(0) + TickMs + MaxStall /\ renewIn[o] = TickMs - call[c].age
      /\ failures[o] \in Nat /\ MaxStall < LeaseMs /\ InFlight(c)
  BY <1>1, WaitIs DEF TakeoverInv
<1>3. /\ Return(c) \/ Fail(c)
      /\ call' = [call EXCEPT ![c] = IdleCall] /\ UNCHANGED <<up, holder, expiresIn, renewIn, looping>>
  BY <1>2 DEF Return, Fail, EndCron, Works, AllHaveTimers, InFlight, Steps
<1>4. call'[c].pc = "idle" /\ IdleCall.pc = "idle"
  BY <1>3 DEF IdleCall, TakeoverInv, LoopInv, LeaseInv, TypeOK
<1>5. \A i \in Instance : i # o => leaderFor'[i] = leaderFor[i] /\ failures'[i] = failures[i] /\ renewIn'[i] = renewIn[i]
  BY <1>3 DEF Return, Fail, TakeoverInv, LoopInv, LeaseInv, TypeOK
<1>6. \A d \in Call : Owner[d] = o => d = c
  BY DEF OneCallPerProcess
<1>7. holder = o => Secure(o)
  BY <1>2 DEF TakeoverInv, KeptByHolder
<1>8. CASE Fail(c)
  <2>1. failures'[o] = failures[o] + 1 /\ UNCHANGED <<leaderFor, idleFor>>
    BY <1>2, <1>8 DEF Fail, TakeoverInv, LoopInv, LeaseInv, TypeOK
  <2>2. Spare(failures[o]) = Spare(failures[o] + 1) + TickMs /\ Spare(failures[o] + 1) \in Int
    <3>1. failures[o] + 1 \in Nat
      BY <1>2
    <3> QED
      BY <1>2, <3>1, SpareIs
  <2>3. Wait(c)' = Wait(c)
    BY <1>1, <1>2, <1>3, <1>4, <2>1, <2>2 DEF Wait
  <2>4. holder = o => Secure(o)' /\ (IsLeader(o)' \/ idleFor' + Wait(c)' <= MaxIdle)
    <3> SUFFICES ASSUME holder = o PROVE Secure(o)' /\ (IsLeader(o)' \/ idleFor' + Wait(c)' <= MaxIdle)
      OBVIOUS
    <3>1. expiresIn >= Spare(failures[o]) + MaxStall - call[c].age
      BY <1>2, <1>7 DEF Secure
    <3>2. expiresIn >= Spare(failures'[o]) + renewIn[o] + MaxStall
      BY <1>2, <2>1, <2>2, <3>1
    <3>3. Secure(o)'
      BY <1>3, <1>4, <1>6, <3>2 DEF Secure, InFlight, Steps
    <3> QED
      BY <1>2, <2>1, <2>3, <3>3 DEF TakeoverInv, HolderFindsOut, IsLeader
  <2>5. holder \notin up => idleFor' + Wait(c)' <= MaxIdle
    BY <1>2, <2>1, <2>3 DEF TakeoverInv, RowIsTakenOver
  <2>6. \A i \in Instance : IsLeader(i)' => idleFor' = 0
    BY <2>1 DEF TakeoverInv, IsLeader
  <2>7. renewIn'[o] <= TickMs /\ IdleCall.pc \notin {"read", "return"} /\ IdleCall.pc \in {"idle", "insert"}
    BY <1>2, <1>3, <1>4
  <2> QED
    BY <1>2, <1>3, <1>5, <2>1, <2>4, <2>5, <2>6, <2>7, RowLeftAlone
<1>9. CASE Return(c)
  <2>1. /\ failures'[o] = 0 /\ leaderFor'[o] = LeaderForAfter(c) /\ call[c].pc = "return"
        /\ idleFor' = IF LeaderForAfter(c) > 0 THEN 0 ELSE idleFor
    BY <1>2, <1>9 DEF Return, TakeoverInv, LoopInv, LeaseInv, TypeOK
  <2>2. ExpiryOf(c) > 0 /\ ExpiryOf(c) \in Int
    BY <1>2 DEF ExpiryOf
  <2>3. Wait(c)' = WaitAgain(c) /\ WaitAgain(c) <= MaxIdle
    BY <1>2, <1>3, <1>4, <2>1 DEF Wait, WaitAgain
  <2>4. call[c].held => holder = o /\ LeaderForAfter(c) > 0
    BY <2>1, <2>2 DEF LeaderForAfter, TakeoverInv, LoopInv, LeaseInv, RowAfterRead
  <2>5. holder = o => call[c].held
    BY <1>7, <2>1 DEF Secure
  <2>6. holder = o => Secure(o)' /\ (IsLeader(o)' \/ idleFor' + Wait(c)' <= MaxIdle)
    <3> SUFFICES ASSUME holder = o PROVE Secure(o)' /\ (IsLeader(o)' \/ idleFor' + Wait(c)' <= MaxIdle)
      OBVIOUS
    <3>1. expiresIn >= ExpiryOf(c)
      BY <1>7, <2>1 DEF Secure
    <3>2. Spare(0) + TickMs + MaxStall <= LeaseMs
      BY <1>2, SpareAtFirst
    <3>3. expiresIn >= Spare(failures'[o]) + renewIn[o] + MaxStall
      BY <1>2, <2>1, <3>1, <3>2 DEF ExpiryOf
    <3>4. Secure(o)'
      BY <1>3, <1>4, <1>6, <3>3 DEF Secure, InFlight, Steps
    <3> QED
      BY <2>1, <2>4, <2>5, <3>4 DEF IsLeader
  <2>7. holder \notin up => idleFor' + Wait(c)' <= MaxIdle
    <3> SUFFICES ASSUME holder \notin up PROVE idleFor' + Wait(c)' <= MaxIdle
      OBVIOUS
    <3>1. idleFor + WaitAgain(c) <= MaxIdle
      BY <1>2, <2>1 DEF TakeoverInv, RowIsTakenOver
    <3> QED
      BY <1>2, <2>1, <2>3, <3>1
  <2>8. \A i \in Instance : IsLeader(i)' => idleFor' = 0
    <3> SUFFICES ASSUME NEW i \in Instance, leaderFor'[i] > 0, ~(LeaderForAfter(c) > 0) PROVE idleFor = 0
      BY <2>1 DEF IsLeader
    <3>1. i # o
      BY <2>1
    <3> QED
      BY <1>5, <3>1 DEF TakeoverInv, IsLeader
  <2>9. renewIn'[o] <= TickMs /\ IdleCall.pc \notin {"read", "return"} /\ IdleCall.pc \in {"idle", "insert"}
    BY <1>2, <1>3, <1>4
  <2>10. idleFor' = idleFor \/ idleFor' = 0
    BY <2>1
  <2> QED
    BY <1>2, <1>3, <1>5, <2>6, <2>7, <2>8, <2>9, <2>10, RowLeftAlone
<1> QED
  BY <1>3, <1>8, <1>9

\* What is waited for comes nearer as time passes.
LEMMA TickTakeover ==
  ASSUME TakeoverInv, AllHaveTimers, RenewsInTime, Punctual, LoopInv', Tick
  PROVE  TakeoverInv'
<1>1. \A c \in Call : /\ call'[c].pc = call[c].pc /\ call'[c].held = call[c].held
                      /\ call[c].pc # "idle" => call'[c].age = call[c].age + 1
  BY DEF Tick, TakeoverInv, LoopInv, LeaseInv, TypeOK, Age
<1>2. \A i \in Instance : /\ renewIn[i] \in Nat /\ renewIn'[i] <= renewIn[i] /\ renewIn'[i] \in Nat
                          /\ i \in up => renewIn'[i] = renewIn[i] - 1
  <2>1. \A i \in Instance : i \in TimerInstance
    BY DEF AllHaveTimers, TimerInstance
  <2> QED
    BY <2>1 DEF Tick, TakeoverInv, LoopInv, LeaseInv, TypeOK, Down
<1>3. /\ expiresIn \in Int /\ expiresIn' \in Int /\ expiresIn' >= expiresIn - 1 /\ expiresIn <= LeaseMs
      /\ expiresIn' <= LeaseMs /\ (expiresIn' >= -MaxStall => expiresIn' = expiresIn - 1)
      /\ UNCHANGED <<up, holder, failures>>
      /\ \A i \in Instance : leaderFor'[i] > 0 => leaderFor[i] > 0
  BY DEF Tick, TakeoverInv, LoopInv, LeaseInv, TypeOK, Down
<1>4. \A c \in Call : Owner[c] \in up =>
         /\ Wait(c)' = Wait(c) - 1 /\ Wait(c) \in Int /\ Wait(c) <= MaxIdle - LeaseMs /\ WaitAgain(c) \in Int
         /\ call[c].pc # "idle" => WaitAgain(c)' = WaitAgain(c) - 1 /\ WaitAgain(c) <= MaxIdle - LeaseMs
         /\ call[c].pc \in {"read", "return"} => call[c].pc # "idle"
  <2> SUFFICES ASSUME NEW c \in Call, Owner[c] \in up
               PROVE  /\ Wait(c)' = Wait(c) - 1 /\ Wait(c) \in Int /\ Wait(c) <= MaxIdle - LeaseMs /\ WaitAgain(c) \in Int
                      /\ call[c].pc # "idle" => WaitAgain(c)' = WaitAgain(c) - 1 /\ WaitAgain(c) <= MaxIdle - LeaseMs
    OBVIOUS
  <2>1. /\ Owner[c] \in Instance /\ call[c].age \in Nat /\ Spare(failures[Owner[c]]) \in Int /\ Spare(0) \in Int
        /\ Spare(failures[Owner[c]]) <= Spare(0) /\ MaxIdle = LeaseMs + Spare(0) + TickMs + MaxStall
        /\ Wait(c) \in Int /\ WaitAgain(c) \in Int /\ renewIn[Owner[c]] <= TickMs
    BY WaitIs DEF TakeoverInv
  <2> QED
    BY <1>1, <1>2, <1>3, <2>1 DEF Wait, WaitAgain
<1>5. /\ idleFor \in Nat /\ idleFor' \in Nat /\ idleFor' <= idleFor + 1
      /\ (\E i \in Instance : IsLeader(i)) => idleFor' = 0 /\ idleFor = 0
  BY DEF Tick, TakeoverInv, LoopInv, LeaseInv, TypeOK
<1>6. ASSUME NEW i \in Instance, IsLeader(i)' PROVE idleFor' = 0
  BY <1>3, <1>5, <1>6 DEF IsLeader
<1>7. KeptByHolder'
  <2> SUFFICES ASSUME NEW i \in up, holder = i PROVE Secure(i)'
    BY <1>3 DEF KeptByHolder
  <2>1. i \in Instance /\ Secure(i) /\ Spare(failures[i]) \in Int
    BY SpareIs DEF TakeoverInv, KeptByHolder, LoopInv, LeaseInv, TypeOK
  <2> SUFFICES ASSUME NEW c \in Call, Owner[c] = i
               PROVE  /\ call[c].pc = "idle" => expiresIn' >= Spare(failures[i]) + renewIn'[i] + MaxStall
                      /\ InFlight(c) => expiresIn' >= Spare(failures[i]) + MaxStall - call'[c].age
                      /\ call[c].pc \in {"read", "return"} => expiresIn' >= ExpiryOf(c)'
                      /\ call[c].pc = "return" => call[c].held
    BY <1>1, <1>3 DEF Secure, InFlight
  <2>2. /\ call[c].pc = "idle" => expiresIn >= Spare(failures[i]) + renewIn[i] + MaxStall
        /\ InFlight(c) => expiresIn >= Spare(failures[i]) + MaxStall - call[c].age
        /\ call[c].pc \in {"read", "return"} => expiresIn >= ExpiryOf(c)
        /\ call[c].pc = "return" => call[c].held
    BY <2>1 DEF Secure
  <2>3. call[c].age \in Nat /\ (InFlight(c) => call[c].pc # "idle") /\ renewIn[i] \in Nat /\ renewIn'[i] = renewIn[i] - 1
    BY <1>2, <2>1, WaitIs DEF TakeoverInv, InFlight, Steps
  <2>4. call[c].pc = "idle" => expiresIn' >= Spare(failures[i]) + renewIn'[i] + MaxStall
    BY <1>3, <2>1, <2>2, <2>3
  <2>5. InFlight(c) => expiresIn' >= Spare(failures[i]) + MaxStall - call'[c].age
    BY <1>1, <1>3, <2>1, <2>2, <2>3
  <2>6. call[c].pc \in {"read", "return"} => expiresIn' >= ExpiryOf(c)'
    BY <1>1, <1>3, <2>2, <2>3 DEF ExpiryOf
  <2> QED
    BY <2>2, <2>4, <2>5, <2>6
<1>8. HolderFindsOut'
  <2> SUFFICES ASSUME NEW c \in Call, Owner[c] \in up, holder = Owner[c] PROVE idleFor' + Wait(c)' <= MaxIdle
    BY <1>3 DEF HolderFindsOut
  <2>1. MaxIdle \in Int /\ Owner[c] \in Instance
    BY WaitIs DEF TakeoverInv
  <2>2. CASE IsLeader(Owner[c])
    BY <1>4, <1>5, <2>1, <2>2
  <2>3. CASE ~IsLeader(Owner[c])
    <3>1. idleFor + Wait(c) <= MaxIdle
      BY <2>3 DEF TakeoverInv, HolderFindsOut
    <3> QED
      BY <1>4, <1>5, <2>1, <3>1
  <2> QED
    BY <2>2, <2>3
<1>9. RowIsTakenOver'
  <2> SUFFICES ASSUME holder \notin up PROVE RowIsTakenOver'
    BY <1>3 DEF RowIsTakenOver
  <2>1. holder # Nobody /\ expiresIn' >= -MaxStall => idleFor' + expiresIn' <= LeaseMs
    <3> SUFFICES ASSUME holder # Nobody, expiresIn' >= -MaxStall PROVE idleFor' + expiresIn' <= LeaseMs
      OBVIOUS
    <3>1. expiresIn' = expiresIn - 1 /\ expiresIn >= -MaxStall
      BY <1>3
    <3>2. idleFor + expiresIn <= LeaseMs
      BY <3>1 DEF TakeoverInv, RowIsTakenOver
    <3> QED
      BY <1>3, <1>5, <3>1, <3>2
  <2>2. ASSUME NEW c \in Call, Owner[c] \in up
        PROVE  /\ idleFor' + Wait(c)' <= MaxIdle
               /\ call[c].pc \in {"read", "return"} => idleFor' + WaitAgain(c)' <= MaxIdle
    <3>1. MaxIdle \in Int
      BY WaitIs DEF TakeoverInv
    <3>2. /\ idleFor + Wait(c) <= MaxIdle
          /\ call[c].pc \in {"read", "return"} => idleFor + WaitAgain(c) <= MaxIdle
      BY <2>2 DEF TakeoverInv, RowIsTakenOver
    <3>3. idleFor' + Wait(c)' <= MaxIdle
      BY <1>4, <1>5, <2>2, <3>1, <3>2
    <3>4. call[c].pc \in {"read", "return"} => idleFor' + WaitAgain(c)' <= MaxIdle
      BY <1>4, <1>5, <2>2, <3>1, <3>2
    <3> QED
      BY <3>3, <3>4
  <2> QED
    BY <1>1, <1>3, <2>1, <2>2 DEF RowIsTakenOver
<1>10. \A i \in Instance : renewIn'[i] <= TickMs
  BY <1>2 DEF TakeoverInv
<1>11. holder' = Nobody => \A c \in Call : call'[c].pc \in {"idle", "insert"}
  BY <1>1, <1>3 DEF TakeoverInv
<1>12. up' # {} /\ expiresIn' <= LeaseMs
  BY <1>3 DEF TakeoverInv
<1> QED
  BY <1>6, <1>7, <1>8, <1>9, <1>10, <1>11, <1>12 DEF TakeoverInv

\* When a process dies the clock starts anew: a lease, and what any process
\* that lives has to wait at most.
LEMMA CrashTakeover ==
  ASSUME TakeoverInv, AllHaveTimers, SomeoneLives, RenewsInTime, LoopInv', NEW i \in Instance, Crash(i)
  PROVE  TakeoverInv'
<1>1. /\ up' = up \ {i} /\ idleFor' = 0 /\ UNCHANGED <<holder, expiresIn, renewIn, failures>>
      /\ \A c \in Call : call'[c] = IF Owner[c] = i THEN IdleCall ELSE call[c]
      /\ \A h \in Instance : h # i => leaderFor'[h] = leaderFor[h]
  BY DEF Crash, TakeoverInv, LoopInv, LeaseInv, TypeOK
<1>2. up' # {}
  <2> SUFFICES ASSUME up = {i} PROVE FALSE
    BY <1>1 DEF Crash
  <2>1. Cardinality(up) = 1
    BY FS_Singleton
  <2> QED
    BY <2>1 DEF Crash, SomeoneLives
<1>3. ASSUME NEW c \in Call, Owner[c] \in up'
      PROVE  /\ call'[c] = call[c] /\ Wait(c)' = Wait(c) /\ WaitAgain(c)' = WaitAgain(c)
             /\ 0 + Wait(c) <= MaxIdle /\ 0 + WaitAgain(c) <= MaxIdle
  <2>1. Owner[c] \in up /\ call'[c] = call[c]
    BY <1>1, <1>3
  <2>2. /\ Owner[c] \in Instance /\ call[c].age \in Nat /\ Spare(failures[Owner[c]]) \in Int /\ Spare(0) \in Int
        /\ Spare(failures[Owner[c]]) <= Spare(0) /\ MaxIdle = LeaseMs + Spare(0) + TickMs + MaxStall
        /\ renewIn[Owner[c]] \in Nat /\ renewIn[Owner[c]] <= TickMs
    BY WaitIs DEF TakeoverInv
  <2> QED
    BY <1>1, <2>1, <2>2 DEF Wait, WaitAgain
<1>4. KeptByHolder'
  <2> SUFFICES ASSUME NEW h \in up', holder = h PROVE Secure(h)'
    BY <1>1 DEF KeptByHolder
  <2>1. h \in up /\ h \in Instance /\ Secure(h) /\ \A c \in Call : Owner[c] = h => call'[c] = call[c]
    BY <1>1 DEF TakeoverInv, KeptByHolder, LoopInv, LeaseInv, TypeOK
  <2> QED
    BY <1>1, <2>1, OtherSecure DEF TakeoverInv
<1>5. HolderFindsOut'
  BY <1>1, <1>3 DEF HolderFindsOut
<1>6. RowIsTakenOver'
  <2>1. 0 + expiresIn <= LeaseMs
    BY DEF TakeoverInv, LoopInv, LeaseInv, TypeOK
  <2> QED
    BY <1>1, <1>3, <2>1 DEF RowIsTakenOver
<1>7. holder' = Nobody => \A c \in Call : call'[c].pc \in {"idle", "insert"}
  BY <1>1 DEF TakeoverInv, IdleCall
<1> QED
  BY <1>1, <1>2, <1>4, <1>5, <1>6, <1>7 DEF TakeoverInv

\* Loops do not touch the lease.
LEMMA LoopTakeover ==
  ASSUME TakeoverInv, LoopInv', UNCHANGED <<up, holder, expiresIn, leaderFor, call, renewIn, failures, idleFor>>
  PROVE  TakeoverInv'
<1>1. \A c \in Call : Wait(c)' = Wait(c) /\ WaitAgain(c)' = WaitAgain(c)
  BY DEF Wait, WaitAgain
<1>2. KeptByHolder' /\ HolderFindsOut'
  BY <1>1 DEF TakeoverInv, KeptByHolder, HolderFindsOut, Secure, InFlight, ExpiryOf, IsLeader
<1>3. RowIsTakenOver'
  BY <1>1 DEF TakeoverInv, RowIsTakenOver
<1> QED
  BY <1>2, <1>3 DEF TakeoverInv, IsLeader

\* At first nobody holds the row, and every timer fires within its period.
LEMMA TakeoverStarts ==
  ASSUME Init, AllHaveTimers, SomeoneLives, RenewsInTime
  PROVE  TakeoverInv
<1>1. LoopInv
  BY LoopInvInit
<1>2. up # {} /\ expiresIn <= LeaseMs /\ holder \notin up /\ holder = Nobody
  <2>1. Instance # {}
    <3> SUFFICES ASSUME Instance = {} PROVE FALSE
      OBVIOUS
    <3>1. Cardinality(Instance) = 0
      BY FS_EmptySet
    <3> QED
      BY <3>1 DEF SomeoneLives
  <2> QED
    BY <2>1 DEF Init
<1>3. \A c \in Call : call[c].pc = "idle"
  BY DEF Init, IdleCall
<1>4. \A i \in Instance : renewIn[i] <= TickMs /\ ~IsLeader(i)
  BY DEF Init, IsLeader
<1>5. RowIsTakenOver
  <2> SUFFICES ASSUME NEW c \in Call PROVE idleFor + Wait(c) <= MaxIdle
    BY <1>2, <1>3 DEF RowIsTakenOver
  <2>1. /\ Owner[c] \in Instance /\ Spare(failures[Owner[c]]) \in Int /\ Spare(0) \in Int
        /\ Spare(failures[Owner[c]]) <= Spare(0) /\ MaxIdle = LeaseMs + Spare(0) + TickMs + MaxStall
        /\ renewIn[Owner[c]] \in Nat /\ renewIn[Owner[c]] <= TickMs /\ idleFor = 0
    BY <1>1, <1>4, WaitIs DEF Init
  <2> QED
    BY <1>3, <2>1 DEF Wait
<1> QED
  BY <1>1, <1>2, <1>3, <1>4, <1>5 DEF TakeoverInv, KeptByHolder, HolderFindsOut

\* Some process that lives has the row or asks for it within the bound.
LEMMA InvBoundsTakeover ==
  ASSUME TakeoverInv, AllHaveTimers, RenewsInTime
  PROVE  TakeoverBound
<1>1. PICK i \in up : holder \in up => i = holder
  BY DEF TakeoverInv
<1>2. i \in Instance
  BY DEF TakeoverInv, LoopInv, LeaseInv, TypeOK
<1>3. PICK c \in Call : Owner[c] = i
  BY <1>2 DEF AllHaveTimers
<1>4. /\ Wait(c) \in Int /\ Wait(c) >= 0 /\ idleFor \in Nat /\ MaxIdle \in Int
      /\ MaxIdle >= 0
  BY <1>3, WaitIs DEF TakeoverInv
<1>5. IsLeader(i) => idleFor = 0
  BY <1>2 DEF TakeoverInv
<1>6. IsLeader(i) \/ idleFor + Wait(c) <= MaxIdle
  BY <1>1, <1>3 DEF TakeoverInv, HolderFindsOut, RowIsTakenOver
<1> QED
  BY <1>4, <1>5, <1>6 DEF TakeoverBound

\* However many processes die, the others go without a leader for no longer
\* than a lease, the period of a timer for each failure that a process may have
\* and one more, and a renewal: as long as one lives and timers fire on time.
THEOREM LeaderIsReplaced ==
  ASSUME OneCallPerProcess, Punctual, RenewsInTime, AllHaveTimers, SomeoneLives
  PROVE  Spec => []TakeoverBound
<1>1. Init => TakeoverInv
  BY TakeoverStarts
<1>2. TakeoverInv /\ TypeOK' /\ [Next]_vars => TakeoverInv'
  <2> SUFFICES ASSUME TakeoverInv, TypeOK', [Next]_vars PROVE TakeoverInv'
    OBVIOUS
  <2>1. LoopInv'
    BY LoopInvStep DEF TakeoverInv
  <2>2. ASSUME NEW i \in Instance, NEW l \in Loop, StartLoop(i, l) \/ EndLoop(i, l) PROVE TakeoverInv'
    BY <2>1, <2>2, LoopTakeover DEF StartLoop, EndLoop
  <2>3. CASE UNCHANGED vars
    BY <2>1, <2>3, LoopTakeover DEF vars
  <2> QED
    BY <2>1, <2>2, <2>3, BeginTakeover, StatementTakeover, EndTakeover, TickTakeover, CrashTakeover DEF Next
<1>3. TakeoverInv => TakeoverBound
  BY InvBoundsTakeover
<1> QED
  BY <1>1, <1>2, <1>3, TypeCorrect, PTL DEF Spec

-----------------------------------------------------------------------------
(* The lease implements the abstract election. *)

\* Under the invariant the abstract leader is the process that believes it is.
LEMMA CurrentLeaderIs ==
  ASSUME LeaseInv
  PROVE  /\ \A i \in Instance : IsLeader(i) <=> CurrentLeader = i
         /\ CurrentLeader \in Instance \cup {Nobody}
  BY RowHasOneHolder DEF LeaseInv, OneLeader, CurrentLeader

\* A process becomes the leader only when no process is.
LEMMA NewLeaderFindsNone ==
  ASSUME LeaseInv, TypeOK', [Next]_vars, NEW i \in Instance, ~IsLeader(i), IsLeader(i)'
  PROVE  \A j \in Instance : ~IsLeader(j)
<1>1. PICK c \in Call : Return(c) /\ Owner[c] = i
  <2>1. CASE Tick
    BY <2>1 DEF Tick, Down, IsLeader, LeaseInv, TypeOK
  <2>2. ASSUME NEW j \in Instance, Crash(j) PROVE FALSE
    BY <2>2 DEF Crash, IsLeader, LeaseInv, TypeOK
  <2>3. ASSUME NEW c \in Call, Return(c), Owner[c] # i PROVE FALSE
    BY <2>3 DEF Return, Works, IsLeader, LeaseInv, TypeOK
  <2>4. leaderFor' # leaderFor
    BY DEF IsLeader
  <2> QED
    BY <2>1, <2>2, <2>3, <2>4 DEF Next, TimerRenew, CronRenew, Begin, Insert, Update, Read, Fail,
       EndCron, StartLoop, EndLoop, vars
<1>2. LeaderForAfter(c) > 0
  BY <1>1 DEF Return, Works, IsLeader, LeaseInv, TypeOK
<1>3. holder = i
  BY <1>1, <1>2 DEF Return, Works, LeaderForAfter, LeaseInv, RowAfterRead
<1> QED
  BY <1>3 DEF LeaseInv, RowBacksLeader

\* Every step of the lease is a step of the election, or leaves it alone.
THEOREM LeaseImplementsElection ==
  ASSUME OneCallPerProcess
  PROVE  Spec => ImplementsLeadership
<1>1. Init => Election!Init
  BY DEF Init, Election!Init, CurrentLeader, IsLeader
<1>2. LeaseInv /\ LeaseInv' /\ [Next]_vars => [Election!Next]_CurrentLeader
  <2> SUFFICES ASSUME LeaseInv, LeaseInv', [Next]_vars, CurrentLeader' # CurrentLeader
               PROVE  Election!Next
    OBVIOUS
  <2>0. TypeOK'
    BY DEF LeaseInv
  <2>1. /\ \A i \in Instance : IsLeader(i) <=> CurrentLeader = i
        /\ CurrentLeader \in Instance \cup {Nobody}
    BY CurrentLeaderIs
  <2>2. /\ \A i \in Instance : IsLeader(i)' <=> CurrentLeader' = i
        /\ CurrentLeader' \in Instance \cup {Nobody}
    <3>1. OneLeader'
      BY RowHasOneHolder, PTL DEF LeaseInv
    <3> QED
      BY <3>1 DEF OneLeader, CurrentLeader
  <2>3. CASE CurrentLeader' = Nobody
    BY <2>3 DEF Election!Next, Election!Lapse
  <2>4. CASE CurrentLeader' # Nobody
    <3>1. PICK i \in Instance : CurrentLeader' = i
      BY <2>2, <2>4
    <3>2. IsLeader(i)' /\ ~IsLeader(i)
      BY <2>1, <2>2, <3>1
    <3>3. CurrentLeader = Nobody
      BY <2>0, <2>1, <3>2, NewLeaderFindsNone
    <3> QED
      BY <3>1, <3>3 DEF Election!Next, Election!Elect
  <2> QED
    BY <2>3, <2>4
<1> QED
  BY <1>1, <1>2, LeaseInvariant, PTL DEF Spec, Election!Spec, ImplementsLeadership
=============================================================================
