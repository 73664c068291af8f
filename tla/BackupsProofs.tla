--------------------------- MODULE BackupsProofs ----------------------------
(***************************************************************************)
(* A pruned run has left no copy behind, and the newest backup is always   *)
(* kept: for any number of processes that run, retry, prune and die over   *)
(* each other, any number of runs and buckets, and any choice of what      *)
(* retention keeps that keeps the newest.                                  *)
(*                                                                         *)
(* What a process drops it listed some time ago, and the rows have gone on *)
(* since.  Three facts hold all the same.  A copy is only ever written for *)
(* a run that is under way, and none that retention listed is.  A run that *)
(* succeeded has its copy where its row says and nowhere else, so deleting *)
(* it there leaves none.  And whatever is to be dropped, a newer run had   *)
(* its copy recorded, even if it was called a failure since: the newest    *)
(* that has is never dropped, by anybody.                                  *)
(***************************************************************************)
EXTENDS Backups, WellFoundedInduction, TLAPS

\* Numbers of the model; an error needs a statement that throws; and a bucket is
\* a place.
Bounded == MaxRuns \in Nat /\ MaxFaults \in Nat /\ "idle" \notin MayThrow /\ "nowhere" \notin Bucket

\* No copy anywhere but in one place.
OnlyAt(r, at) == \A f \in files : f[1] = r => f[2] = at
NoCopy(r) == \A f \in files : f[1] # r

\* Deleted, if in the bucket that had it.
Gone(r) == r \in left \/ NoCopy(r)

\* A run that has not started has no copy, and one that is pruned has none left.
Unwritten ==
  \A r \in Run : (run[r].status = "none" => NoCopy(r)) /\ (run[r].status = "pruned" => Gone(r))

\* The copy of a run is where its row says.
InPlace == \A r \in With("succeeded") : OnlyAt(r, run[r].place)

\* A process with a run of its own.
Busy(p) == worker[p].pc \notin {"idle", "insert"}

\* A run under way is being written by its process, which alone has it.
UnderWay(p) ==
  Busy(p) =>
    /\ worker[p].run \in Run
    /\ run[worker[p].run].status # "none"
    /\ worker[p].pc \in {"dump", "record"} => run[worker[p].run].status = "running"
    /\ worker[p].pc = "dump" => NoCopy(worker[p].run)
    /\ worker[p].pc = "record" => OnlyAt(worker[p].run, worker[p].place)

OwnRun == \A p, q \in Process : Busy(p) /\ Busy(q) /\ p # q => worker[p].run # worker[q].run

\* What is to be dropped has ended, and its copy is where its row says.
Dropping(p) ==
  /\ worker[p].pc \notin {"delete", "mark"} => worker[p].drop = {}
  /\ \A r \in worker[p].drop :
       /\ run[r].status \in {"succeeded", "pruned", "failed"}
       /\ OnlyAt(r, run[r].place)
  /\ worker[p].pc = "mark" => worker[p].drop # {} /\ Gone(NextToDrop(p))

Row == [status : {"none", "running", "succeeded", "failed", "pruned"}, place : Place \cup {"nowhere"}]
Work ==
  [pc : {"idle", "insert", "dump", "record", "beat", "list", "delete", "mark", "fail", "report"},
   run : 0 .. MaxRuns, place : Place, drop : SUBSET Run]

Shape ==
  /\ place \in Place
  /\ run \in [Run -> Row]
  /\ files \subseteq Run \X Place
  /\ running \in [Process -> BOOLEAN]
  /\ worker \in [Process -> Work]
  /\ left \subseteq Run

PruneInv ==
  /\ Shape /\ Unwritten /\ InPlace /\ OwnRun
  /\ \A p \in Process : UnderWay(p) /\ Dropping(p)
-----------------------------------------------------------------------------
\* Runs are numbered, so some of them have a newest.
LEMMA Greatest ==
  ASSUME MaxRuns \in Nat, NEW S, S \subseteq Run, S # {}
  PROVE  Max(S) \in S /\ \A y \in S : Max(S) >= y
<1> DEFINE Older == {ss \in Nat \X Nat : ss[1] < ss[2]}
           T == {MaxRuns - r : r \in S}
<1>1. T \subseteq Nat /\ T # {}
  BY DEF Run
<1>2. IsWellFoundedOn(Older, Nat)
  BY NatLessThanWellFounded DEF OpToRel
<1>3. PICK m \in T : \A y \in T : <<y, m>> \notin Older
  <2> HIDE DEF T, Older
  <2> QED  BY <1>1, <1>2, WFMin
<1>4. PICK r \in S : m = MaxRuns - r
  OBVIOUS
<1>5. \A y \in S : r >= y
  <2> SUFFICES ASSUME NEW y \in S PROVE r >= y
    OBVIOUS
  <2>1. MaxRuns - y \in Nat /\ MaxRuns - r \in Nat
    BY DEF Run
  <2>2. ~(MaxRuns - y < MaxRuns - r)
    BY <1>3, <1>4, <2>1
  <2> QED
    BY <2>2 DEF Run
<1> QED
  BY <1>4, <1>5 DEF Max

\* And an oldest.
LEMMA Oldest ==
  ASSUME MaxRuns \in Nat, NEW S, S \subseteq Run, S # {}
  PROVE  Min(S) \in S
<1> DEFINE Older == {ss \in Nat \X Nat : ss[1] < ss[2]}
<1>1. S \subseteq Nat
  BY DEF Run
<1>2. IsWellFoundedOn(Older, Nat)
  BY NatLessThanWellFounded DEF OpToRel
<1>3. PICK m \in S : \A y \in S : <<y, m>> \notin Older
  <2> HIDE DEF Older
  <2> QED  BY <1>1, <1>2, WFMin
<1>4. \A y \in S : m =< y
  <2> SUFFICES ASSUME NEW y \in S PROVE m =< y
    OBVIOUS
  <2>1. ~(y < m) /\ y \in Nat /\ m \in Nat
    BY <1>1, <1>3
  <2> QED
    BY <2>1
<1> QED
  BY <1>3, <1>4 DEF Min

-----------------------------------------------------------------------------
(* What the statements of a run do to its process and to a row. *)

LEMMA Going ==
  ASSUME Shape, NEW p \in Process, NEW pc, pc \in
           {"idle", "insert", "dump", "record", "beat", "list", "delete", "mark", "fail", "report"},
         GoTo(p, pc)
  PROVE  /\ worker' \in [Process -> Work]
         /\ worker'[p].pc = pc /\ worker'[p].run = worker[p].run
         /\ worker'[p].place = worker[p].place /\ worker'[p].drop = worker[p].drop
         /\ \A q \in Process : q # p => worker'[q] = worker[q]
<1>1. worker[p] \in Work
  BY DEF Shape
<1>2. [worker[p] EXCEPT !.pc = pc] \in Work
  BY <1>1 DEF Work
<1>3. worker' = [worker EXCEPT ![p] = [worker[p] EXCEPT !.pc = pc]]
  BY DEF GoTo, Shape
<1> QED
  BY <1>1, <1>2, <1>3 DEF Shape, Work

LEMMA Taking ==
  ASSUME Shape, NEW p \in Process, NEW w \in Work, worker' = [worker EXCEPT ![p] = w]
  PROVE  /\ worker' \in [Process -> Work]
         /\ worker'[p] = w
         /\ \A q \in Process : q # p => worker'[q] = worker[q]
BY DEF Shape

LEMMA Resting == Bounded => Idle \in Work
BY DEF Bounded, Idle, Work, Place

LEMMA Leaving ==
  ASSUME Shape, NEW p \in Process
  PROVE  /\ Dropped(p) \in Work
         /\ Dropped(p).pc = "delete" /\ Dropped(p).run = worker[p].run
         /\ Dropped(p).place = worker[p].place /\ Dropped(p).drop = worker[p].drop \ {NextToDrop(p)}
<1>1. worker[p] \in Work
  BY DEF Shape
<1> QED
  BY <1>1 DEF Dropped, Work

LEMMA Setting ==
  ASSUME Shape, NEW r \in Run, NEW status,
         status \in {"none", "running", "succeeded", "failed", "pruned"}, SetStatus(r, status)
  PROVE  /\ run' \in [Run -> Row]
         /\ run'[r].status = status /\ run'[r].place = run[r].place
         /\ \A s \in Run : s # r => run'[s] = run[s]
<1>1. run[r] \in Row
  BY DEF Shape
<1>2. [run[r] EXCEPT !.status = status] \in Row
  BY <1>1 DEF Row
<1>3. run' = [run EXCEPT ![r] = [run[r] EXCEPT !.status = status]]
  BY DEF SetStatus, Shape
<1> QED
  BY <1>1, <1>2, <1>3 DEF Shape, Row

-----------------------------------------------------------------------------
(* No copy of a pruned run. *)

LEMMA InitPrune == Bounded /\ Init => PruneInv
<1> SUFFICES ASSUME Bounded, Init PROVE PruneInv
  OBVIOUS
<1>1. Idle \in Work
  BY Resting
<1>2. [status |-> "none", place |-> "nowhere"] \in Row
  BY DEF Row, Place
<1>3. Shape
  BY <1>1, <1>2 DEF Init, Shape
<1>4. \A p \in Process : worker[p].pc = "idle" /\ worker[p].drop = {}
  BY DEF Init, Idle
<1>5. Unwritten /\ OwnRun
  BY <1>4 DEF Init, Unwritten, OwnRun, NoCopy, Gone, Busy
<1>6. InPlace
  BY DEF Init, InPlace, OnlyAt
<1>7. \A p \in Process : UnderWay(p) /\ Dropping(p)
  BY <1>4 DEF UnderWay, Dropping, Busy
<1> QED
  BY <1>3, <1>5, <1>6, <1>7 DEF PruneInv

\* Only one process moves: to rest, or on with its run once it is recorded.
LEMMA PruneMoves ==
  ASSUME PruneInv, NEW p \in Process, NEW w \in Work,
         \/ w.pc \in {"idle", "insert"}
         \/ Busy(p) /\ w.run = worker[p].run /\ w.pc \notin {"dump", "record"},
         w.pc # "delete" => w.drop = {}, w.pc # "mark",
         \A r \in w.drop : run[r].status \in {"succeeded", "pruned", "failed"} /\ OnlyAt(r, run[r].place),
         worker' = [worker EXCEPT ![p] = w], running' \in [Process -> BOOLEAN],
         place' \in Place, UNCHANGED <<run, files, left>>
  PROVE  PruneInv'
<1>1. Shape /\ Unwritten /\ InPlace /\ OwnRun /\ \A q \in Process : UnderWay(q) /\ Dropping(q)
  BY DEF PruneInv
<1>2. /\ worker' \in [Process -> Work]
      /\ worker'[p] = w
      /\ \A q \in Process : q # p => worker'[q] = worker[q]
  BY <1>1, Taking
<1>3. Shape'
  BY <1>1, <1>2 DEF Shape
<1>4. Unwritten' /\ InPlace'
  BY <1>1 DEF Unwritten, InPlace, With, NoCopy, Gone, OnlyAt
<1>5. OwnRun'
  BY <1>1, <1>2 DEF OwnRun, Busy
<1>6. ASSUME NEW q \in Process PROVE UnderWay(q)' /\ Dropping(q)'
  <2>1. CASE q = p
    <3>1. UnderWay(q)'
      BY <1>1, <1>2, <2>1 DEF UnderWay, Busy
    <3>2. Dropping(q)'
      BY <1>2, <2>1 DEF Dropping, OnlyAt
    <3> QED
      BY <3>1, <3>2
  <2>2. CASE q # p
    <3>1. UnderWay(q) /\ Dropping(q) /\ worker'[q] = worker[q]
      BY <1>1, <1>2, <2>2
    <3>2. UnderWay(q)'
      BY <3>1 DEF UnderWay, Busy, NoCopy, OnlyAt
    <3>3. \A r \in worker[q].drop : run[r].status \in {"succeeded", "pruned", "failed"} /\ OnlyAt(r, run[r].place)
      BY <3>1 DEF Dropping
    <3>4. \A r \in worker'[q].drop : run'[r].status \in {"succeeded", "pruned", "failed"} /\ OnlyAt(r, run[r].place)'
      BY <3>1, <3>3 DEF OnlyAt
    <3>5. NextToDrop(q)' = NextToDrop(q)
      BY <3>1 DEF NextToDrop
    <3>6. Gone(NextToDrop(q)) => Gone(NextToDrop(q))'
      BY <3>5 DEF Gone, NoCopy
    <3>7. Dropping(q)'
      BY <3>1, <3>4, <3>6 DEF Dropping
    <3> QED
      BY <3>2, <3>7
  <2> QED
    BY <2>1, <2>2
<1> QED
  BY <1>3, <1>4, <1>5, <1>6 DEF PruneInv

LEMMA InsertPrune ==
  ASSUME Bounded, PruneInv, NEW p \in Process, Insert(p)
  PROVE  PruneInv'
<1> DEFINE r == Min(With("none"))
<1>1. Shape /\ Unwritten /\ InPlace /\ OwnRun /\ \A q \in Process : UnderWay(q) /\ Dropping(q)
  BY DEF PruneInv
<1>2. r \in Run /\ run[r].status = "none" /\ r \in 0 .. MaxRuns
  <2>1. With("none") \subseteq Run /\ With("none") # {}
    BY DEF Insert, With
  <2>2. r \in With("none")
    BY <2>1, Oldest DEF Bounded
  <2> QED
    BY <2>2 DEF With, Run, Bounded
<1> HIDE DEF r
<1>3. SetStatus(r, "running") /\ worker' = [worker EXCEPT ![p].pc = "dump", ![p].run = r]
  BY DEF Insert, r
<1>4. /\ run' \in [Run -> Row]
      /\ run'[r].status = "running" /\ run'[r].place = run[r].place
      /\ \A s \in Run : s # r => run'[s] = run[s]
  BY <1>1, <1>2, <1>3, Setting
<1>5. worker[p] \in Work /\ worker[p].pc = "insert"
  BY <1>1 DEF Shape, Insert, At
<1>6. PICK w : w = [worker[p] EXCEPT !.pc = "dump", !.run = r]
  OBVIOUS
<1>7. w \in Work /\ w.pc = "dump" /\ w.run = r /\ w.drop = worker[p].drop
  BY <1>2, <1>5, <1>6 DEF Work
<1>8. worker' = [worker EXCEPT ![p] = w]
  BY <1>1, <1>3, <1>6 DEF Shape
<1>9. /\ worker' \in [Process -> Work]
      /\ worker'[p] = w
      /\ \A q \in Process : q # p => worker'[q] = worker[q]
  BY <1>1, <1>7, <1>8, Taking
<1>10. UNCHANGED <<files, left, place, running>>
  BY DEF Insert
<1>11. Shape'
  BY <1>1, <1>4, <1>9, <1>10 DEF Shape
<1>12. Unwritten'
  BY <1>1, <1>2, <1>4, <1>10 DEF Unwritten, NoCopy, Gone
<1>13. InPlace'
  BY <1>1, <1>2, <1>4, <1>10 DEF InPlace, OnlyAt, With
<1>14. \A q \in Process : Busy(q) => worker[q].run \in Run /\ worker[q].run # r
  BY <1>1, <1>2 DEF UnderWay
<1>15. OwnRun'
  BY <1>1, <1>7, <1>9, <1>14 DEF OwnRun, Busy
<1>16. ASSUME NEW q \in Process PROVE UnderWay(q)' /\ Dropping(q)'
  <2>1. CASE q = p
    <3>1. NoCopy(r)
      BY <1>1, <1>2 DEF Unwritten
    <3>2. worker[p].drop = {}
      BY <1>1, <1>5 DEF Dropping
    <3> QED
      BY <2>1, <3>1, <3>2, <1>2, <1>4, <1>7, <1>9, <1>10 DEF UnderWay, Dropping, Busy, NoCopy, Gone
  <2>2. CASE q # p
    <3>1. UnderWay(q) /\ Dropping(q) /\ worker'[q] = worker[q]
      BY <1>1, <1>9, <2>2
    <3>2. UnderWay(q)'
      BY <3>1, <1>4, <1>10, <1>14 DEF UnderWay, Busy, NoCopy, Gone, OnlyAt
    <3>3. r \notin worker[q].drop /\ worker[q].drop \subseteq Run
      BY <3>1, <1>1, <1>2 DEF Dropping, Shape, Work
    <3>4. Dropping(q)'
      BY <3>1, <3>3, <1>4, <1>10 DEF Dropping, NoCopy, Gone, OnlyAt, NextToDrop
    <3> QED
      BY <3>2, <3>4
  <2> QED
    BY <2>1, <2>2
<1> QED
  BY <1>11, <1>12, <1>13, <1>15, <1>16 DEF PruneInv

LEMMA DumpPrune ==
  ASSUME PruneInv, NEW p \in Process, Dump(p)
  PROVE  PruneInv'
<1>1. Shape /\ Unwritten /\ InPlace /\ OwnRun /\ \A q \in Process : UnderWay(q) /\ Dropping(q)
  BY DEF PruneInv
<1>2. worker[p] \in Work /\ worker[p].pc = "dump"
  BY <1>1 DEF Shape, Dump, At
<1>3. PICK r \in Run : r = worker[p].run
  BY <1>1, <1>2 DEF UnderWay, Busy
<1>4. run[r].status = "running" /\ NoCopy(r)
  BY <1>1, <1>2, <1>3 DEF UnderWay, Busy
<1>5. /\ worker' \in [Process -> Work]
      /\ worker'[p].pc = "record" /\ worker'[p].run = worker[p].run
      /\ worker'[p].place = worker[p].place /\ worker'[p].drop = worker[p].drop
      /\ \A q \in Process : q # p => worker'[q] = worker[q]
  BY <1>1, Going DEF Dump
<1>6. files' = files \cup {<<r, worker[p].place>>} /\ UNCHANGED <<place, run, left, running>>
  BY <1>3 DEF Dump
<1>7. worker[p].place \in Place
  BY <1>2 DEF Work
<1>8. Shape'
  BY <1>1, <1>3, <1>5, <1>6, <1>7 DEF Shape
\* Only this run has got a copy.
<1>9. ASSUME NEW s, s # r
      PROVE  /\ (NoCopy(s) => NoCopy(s)') /\ (Gone(s) => Gone(s)')
             /\ \A at : OnlyAt(s, at) => \A f \in files' : f[1] = s => f[2] = at
  BY <1>6, <1>9 DEF NoCopy, Gone, OnlyAt
<1>10. Unwritten'
  BY <1>1, <1>4, <1>6, <1>9 DEF Unwritten, NoCopy, Gone
<1>11. InPlace'
  BY <1>1, <1>4, <1>6, <1>9 DEF InPlace, OnlyAt, With
<1>12. OwnRun'
  BY <1>1, <1>2, <1>5 DEF OwnRun, Busy
<1>13. ASSUME NEW q \in Process PROVE UnderWay(q)' /\ Dropping(q)'
  <2>1. CASE q = p
    <3>1. worker[p].drop = {}
      BY <1>1, <1>2 DEF Dropping
    <3>2. \A f \in files' : f[1] = r => f[2] = worker[p].place
      BY <1>4, <1>6 DEF NoCopy, Gone
    <3> QED
      BY <2>1, <3>1, <3>2, <1>3, <1>4, <1>5, <1>6 DEF UnderWay, Dropping, Busy, OnlyAt
  <2>2. CASE q # p
    <3>1. UnderWay(q) /\ Dropping(q) /\ worker'[q] = worker[q]
      BY <1>1, <1>5, <2>2
    <3>2. Busy(q) => worker[q].run # r
      BY <1>1, <1>2, <1>3, <2>2 DEF OwnRun, Busy
    <3>3. UnderWay(q)'
      BY <3>1, <3>2, <1>6, <1>9 DEF UnderWay, Busy, NoCopy, Gone, OnlyAt
    <3>4. r \notin worker[q].drop
      BY <3>1, <1>4 DEF Dropping
    <3>5. worker[q].pc = "mark" => NextToDrop(q) # r
      BY <3>1, <3>4 DEF Dropping, NextToDrop
    <3>6. Dropping(q)'
      BY <3>1, <3>4, <3>5, <1>6, <1>9 DEF Dropping, NoCopy, Gone, OnlyAt, NextToDrop
    <3> QED
      BY <3>3, <3>6
  <2> QED
    BY <2>1, <2>2
<1> QED
  BY <1>8, <1>10, <1>11, <1>12, <1>13 DEF PruneInv

\* The row of a run that its process writes; nobody drops it meanwhile.
LEMMA RecordPrune ==
  ASSUME PruneInv, NEW p \in Process, Record(p)
  PROVE  PruneInv'
<1>1. Shape /\ Unwritten /\ InPlace /\ OwnRun /\ \A q \in Process : UnderWay(q) /\ Dropping(q)
  BY DEF PruneInv
<1>2. worker[p] \in Work /\ worker[p].pc = "record"
  BY <1>1 DEF Shape, Record, At
<1>3. PICK r \in Run : r = worker[p].run
  BY <1>1, <1>2 DEF UnderWay, Busy
<1>4. run[r].status = "running" /\ OnlyAt(r, worker[p].place) /\ worker[p].place \in Place
  BY <1>1, <1>2, <1>3 DEF UnderWay, Busy, Work
<1>5. /\ worker' \in [Process -> Work]
      /\ worker'[p].pc = "beat" /\ worker'[p].run = worker[p].run
      /\ worker'[p].place = worker[p].place /\ worker'[p].drop = worker[p].drop
      /\ \A q \in Process : q # p => worker'[q] = worker[q]
  BY <1>1, Going DEF Record
<1>6. UNCHANGED <<files, left, place, running>>
  BY DEF Record
<1>7. [status |-> "succeeded", place |-> worker[p].place] \in Row
  BY <1>4 DEF Row
<1>8. /\ run' \in [Run -> Row]
      /\ run'[r].status = "succeeded" /\ run'[r].place = worker[p].place
      /\ \A s \in Run : s # r => run'[s] = run[s]
  BY <1>1, <1>3, <1>7 DEF Shape, Record
<1>9. Shape'
  BY <1>1, <1>5, <1>6, <1>8 DEF Shape
<1>10. Unwritten'
  BY <1>1, <1>6, <1>8 DEF Unwritten, NoCopy, Gone
<1>11. InPlace'
  BY <1>1, <1>4, <1>6, <1>8 DEF InPlace, OnlyAt, With
<1>12. OwnRun'
  BY <1>1, <1>2, <1>5 DEF OwnRun, Busy
<1>13. ASSUME NEW q \in Process PROVE UnderWay(q)' /\ Dropping(q)'
  <2>1. CASE q = p
    BY <2>1, <1>1, <1>2, <1>3, <1>5, <1>8 DEF UnderWay, Dropping, Busy
  <2>2. CASE q # p
    <3>1. UnderWay(q) /\ Dropping(q) /\ worker'[q] = worker[q] /\ worker[q] \in Work
      BY <1>1, <1>5, <2>2 DEF Shape
    <3>2. Busy(q) => worker[q].run # r
      BY <1>1, <1>2, <1>3, <2>2 DEF OwnRun, Busy
    <3>3. UnderWay(q)'
      BY <3>1, <3>2, <1>6, <1>8 DEF UnderWay, Busy, NoCopy, Gone, OnlyAt
    <3>4. r \notin worker[q].drop /\ worker[q].drop \subseteq Run
      BY <3>1, <1>4 DEF Dropping, Work
    <3>5. Dropping(q)'
      BY <3>1, <3>4, <1>6, <1>8 DEF Dropping, NoCopy, Gone, OnlyAt, NextToDrop
    <3> QED
      BY <3>3, <3>5
  <2> QED
    BY <2>1, <2>2
<1> QED
  BY <1>9, <1>10, <1>11, <1>12, <1>13 DEF PruneInv

\* A copy that is gone was missed by no row: it was the only one of its run.
LEMMA DeletePrune ==
  ASSUME PruneInv, NEW p \in Process, Delete(p)
  PROVE  PruneInv'
<1>1. Shape /\ Unwritten /\ InPlace /\ OwnRun /\ \A q \in Process : UnderWay(q) /\ Dropping(q)
  BY DEF PruneInv
<1>2. worker[p] \in Work /\ worker[p].pc = "delete" /\ worker[p].drop # {}
  BY <1>1 DEF Shape, Delete, At
<1>3. PICK r \in Run : r = NextToDrop(p)
  BY <1>2 DEF Work, NextToDrop
<1>4. r \in worker[p].drop
  BY <1>2, <1>3 DEF NextToDrop
<1>5. OnlyAt(r, run[r].place)
  BY <1>1, <1>4 DEF Dropping
<1>6. UNCHANGED <<place, run, running>>
  BY DEF Delete
<1>7. CASE ~Deletable(p, r)
  <2>1. files' = files /\ worker' = [worker EXCEPT ![p] = Dropped(p)]
    BY <1>3, <1>7 DEF Delete
  <2>6. left' = left
    BY <1>3, <1>7 DEF Delete
  <2>2. /\ Dropped(p) \in Work
        /\ Dropped(p).pc = "delete" /\ Dropped(p).run = worker[p].run
        /\ Dropped(p).drop = worker[p].drop \ {NextToDrop(p)}
    BY <1>1, Leaving
  <2>3. \A s \in Dropped(p).drop :
          run[s].status \in {"succeeded", "pruned", "failed"} /\ OnlyAt(s, run[s].place)
    BY <2>2, <1>1 DEF Dropping
  <2>4. Busy(p)
    BY <1>2 DEF Busy
  <2>5. running' \in [Process -> BOOLEAN] /\ place' \in Place
    BY <1>1, <1>6 DEF Shape
  <2> QED
    BY <2>1, <2>2, <2>3, <2>4, <2>5, <2>6, <1>6, PruneMoves
<1>8. CASE Deletable(p, r)
  <2>1. DeleteCopy(p, r) /\ GoTo(p, "mark")
    BY <1>3, <1>8 DEF Delete
  <2>2. /\ worker' \in [Process -> Work]
        /\ worker'[p].pc = "mark" /\ worker'[p].run = worker[p].run
        /\ worker'[p].place = worker[p].place /\ worker'[p].drop = worker[p].drop
        /\ \A q \in Process : q # p => worker'[q] = worker[q]
    BY <1>1, <2>1, Going
  <2>3. files' \subseteq files /\ left \subseteq left' /\ left' \subseteq left \cup {r} /\ Gone(r)'
    <3>1. files' \subseteq files /\ left \subseteq left' /\ left' \subseteq left \cup {r}
      BY <2>1 DEF DeleteCopy
    <3>2. CASE DeletedAt(p, r) # run[r].place
      BY <3>2, <2>1, <3>1 DEF DeleteCopy, Gone
    <3>3. CASE DeletedAt(p, r) = run[r].place
      <4>1. ASSUME NEW f \in files, f[1] = r PROVE f = <<r, run[r].place>>
        BY <4>1, <1>1, <1>5 DEF OnlyAt, Shape
      <4> QED
        BY <4>1, <3>3, <2>1 DEF DeleteCopy, Gone, NoCopy
    <3> QED
      BY <3>1, <3>2, <3>3
  <2>4. Shape'
    BY <1>1, <1>3, <1>6, <2>2, <2>3 DEF Shape
  <2>5. Unwritten' /\ InPlace'
    BY <1>1, <1>6, <2>3 DEF Unwritten, InPlace, NoCopy, Gone, OnlyAt, With
  <2>6. OwnRun'
    BY <1>1, <1>2, <2>2 DEF OwnRun, Busy
  <2>7. ASSUME NEW q \in Process PROVE UnderWay(q)' /\ Dropping(q)'
    <3>1. CASE q = p
      <4>1. UnderWay(q)'
        BY <3>1, <1>1, <1>2, <1>6, <2>2 DEF UnderWay, Busy
      <4>2. NextToDrop(p)' = r
        BY <1>3, <2>2 DEF NextToDrop
      <4>3. \A s \in worker[p].drop :
              /\ run[s].status \in {"succeeded", "pruned", "failed"}
              /\ \A f \in files' : f[1] = s => f[2] = run[s].place
        BY <1>1, <2>3 DEF Dropping, OnlyAt
      <4> QED
        BY <3>1, <4>1, <4>2, <4>3, <1>2, <1>6, <2>2, <2>3 DEF Dropping, NoCopy, Gone, OnlyAt
    <3>2. CASE q # p
      <4>1. UnderWay(q) /\ Dropping(q) /\ worker'[q] = worker[q]
        BY <1>1, <2>2, <3>2
      <4>2. UnderWay(q)'
        BY <4>1, <1>6, <2>3 DEF UnderWay, Busy, NoCopy, Gone, OnlyAt
      <4>3. Dropping(q)'
        BY <4>1, <1>6, <2>3 DEF Dropping, NoCopy, Gone, OnlyAt, NextToDrop
      <4> QED
        BY <4>2, <4>3
    <3> QED
      BY <3>1, <3>2
  <2> QED
    BY <2>4, <2>5, <2>6, <2>7 DEF PruneInv
<1> QED
  BY <1>7, <1>8

LEMMA MarkPrune ==
  ASSUME PruneInv, NEW p \in Process, Mark(p)
  PROVE  PruneInv'
<1>1. Shape /\ Unwritten /\ InPlace /\ OwnRun /\ \A q \in Process : UnderWay(q) /\ Dropping(q)
  BY DEF PruneInv
<1>2. worker[p] \in Work /\ worker[p].pc = "mark"
  BY <1>1 DEF Shape, Mark, At
<1>3. worker[p].drop # {} /\ Gone(NextToDrop(p))
  BY <1>1, <1>2 DEF Dropping
<1>4. PICK r \in Run : r = NextToDrop(p)
  BY <1>2, <1>3 DEF Work, NextToDrop
<1>5. r \in worker[p].drop
  BY <1>3, <1>4 DEF NextToDrop
<1>6. run[r].status \in {"succeeded", "pruned", "failed"} /\ Gone(r)
  BY <1>1, <1>3, <1>4, <1>5 DEF Dropping
<1>7. UNCHANGED <<place, files, left, running>>
  BY DEF Mark
<1>8. /\ run' \in [Run -> Row]
      /\ run'[r].status = "pruned" /\ run'[r].place = run[r].place
      /\ \A s \in Run : s # r => run'[s] = run[s]
  BY <1>1, <1>4, Setting DEF Mark
<1>9. /\ worker' \in [Process -> Work]
      /\ worker'[p].pc = "delete" /\ worker'[p].run = worker[p].run
      /\ worker'[p].drop = worker[p].drop \ {r}
      /\ \A q \in Process : q # p => worker'[q] = worker[q]
  <2>1. /\ Dropped(p) \in Work
        /\ Dropped(p).pc = "delete" /\ Dropped(p).run = worker[p].run
        /\ Dropped(p).drop = worker[p].drop \ {NextToDrop(p)}
    BY <1>1, Leaving
  <2>2. /\ worker' \in [Process -> Work]
        /\ worker'[p] = Dropped(p)
        /\ \A q \in Process : q # p => worker'[q] = worker[q]
    BY <1>1, <2>1, Taking DEF Mark
  <2> QED
    BY <2>1, <2>2, <1>4
<1>10. Shape'
  BY <1>1, <1>7, <1>8, <1>9 DEF Shape
<1>11. Unwritten'
  BY <1>1, <1>6, <1>7, <1>8 DEF Unwritten, NoCopy, Gone
<1>12. InPlace'
  BY <1>1, <1>7, <1>8 DEF InPlace, OnlyAt, With
<1>13. OwnRun'
  BY <1>1, <1>2, <1>9 DEF OwnRun, Busy
<1>14. ASSUME NEW q \in Process PROVE UnderWay(q)' /\ Dropping(q)'
  <2>1. UnderWay(q) /\ Dropping(q) /\ worker[q] \in Work
    BY <1>1 DEF Shape
  <2>2. UnderWay(q)'
    <3>1. CASE q = p
      BY <3>1, <2>1, <1>2, <1>8, <1>9 DEF UnderWay, Busy
    <3>2. CASE q # p
      BY <3>2, <2>1, <1>6, <1>7, <1>8, <1>9 DEF UnderWay, Busy, NoCopy, Gone, OnlyAt
    <3> QED
      BY <3>1, <3>2
  <2>3. \A s \in worker[q].drop : run'[s].status \in {"succeeded", "pruned", "failed"} /\ OnlyAt(s, run[s].place)'
    <3>1. \A s \in worker[q].drop : run[s].status \in {"succeeded", "pruned", "failed"} /\ OnlyAt(s, run[s].place)
      BY <2>1 DEF Dropping
    <3>2. worker[q].drop \subseteq Run
      BY <2>1 DEF Work
    <3>3. \A s \in Run : run'[s].place = run[s].place
      BY <1>8
    <3> QED
      BY <3>1, <3>2, <3>3, <1>7, <1>8 DEF OnlyAt
  <2>4. Dropping(q)'
    <3>1. CASE q = p
      BY <3>1, <2>3, <1>9 DEF Dropping
    <3>2. CASE q # p
      <4>1. worker'[q] = worker[q]
        BY <3>2, <1>9
      <4>2. /\ NextToDrop(q)' = NextToDrop(q)
            /\ Gone(NextToDrop(q)) => Gone(NextToDrop(q))'
        BY <4>1, <1>7 DEF NextToDrop, Gone, NoCopy
      <4> QED
        BY <2>1, <2>3, <4>1, <4>2 DEF Dropping
    <3> QED
      BY <3>1, <3>2
  <2> QED
    BY <2>2, <2>4
<1> QED
  BY <1>10, <1>11, <1>12, <1>13, <1>14 DEF PruneInv

LEMMA FailPrune ==
  ASSUME PruneInv, NEW p \in Process, Fail(p)
  PROVE  PruneInv'
<1>1. Shape /\ Unwritten /\ InPlace /\ OwnRun /\ \A q \in Process : UnderWay(q) /\ Dropping(q)
  BY DEF PruneInv
<1>2. worker[p] \in Work /\ worker[p].pc = "fail"
  BY <1>1 DEF Shape, Fail, At
<1>3. PICK r \in Run : r = worker[p].run
  BY <1>1, <1>2 DEF UnderWay, Busy
<1>4. /\ worker' \in [Process -> Work]
      /\ worker'[p].pc = "report" /\ worker'[p].run = worker[p].run
      /\ worker'[p].place = worker[p].place /\ worker'[p].drop = worker[p].drop
      /\ \A q \in Process : q # p => worker'[q] = worker[q]
  BY <1>1, Going DEF Fail
<1>5. UNCHANGED <<place, files, left, running>>
  BY DEF Fail
<1>6. /\ run' \in [Run -> Row]
      /\ run'[r].status = "failed" /\ run'[r].place = run[r].place
      /\ \A s \in Run : s # r => run'[s] = run[s]
  BY <1>1, <1>3, Setting DEF Fail
<1>7. Shape'
  BY <1>1, <1>4, <1>5, <1>6 DEF Shape
<1>8. Unwritten'
  BY <1>1, <1>5, <1>6 DEF Unwritten, NoCopy, Gone
<1>9. InPlace'
  BY <1>1, <1>5, <1>6 DEF InPlace, OnlyAt, With
<1>10. OwnRun'
  BY <1>1, <1>2, <1>4 DEF OwnRun, Busy
<1>11. ASSUME NEW q \in Process PROVE UnderWay(q)' /\ Dropping(q)'
  <2>1. UnderWay(q) /\ Dropping(q) /\ worker[q] \in Work /\ worker'[q].drop = worker[q].drop
    BY <1>1, <1>4 DEF Shape
  <2>2. UnderWay(q)'
    <3>1. CASE q = p
      BY <3>1, <1>2, <1>3, <1>4, <1>6 DEF UnderWay, Busy
    <3>2. CASE q # p
      <4>1. Busy(q) => worker[q].run # r
        BY <1>1, <1>2, <1>3, <3>2 DEF OwnRun, Busy
      <4> QED
        BY <3>2, <4>1, <2>1, <1>4, <1>5, <1>6 DEF UnderWay, Busy, NoCopy, Gone, OnlyAt
    <3> QED
      BY <3>1, <3>2
  <2>3. \A s \in worker[q].drop : run'[s].status \in {"succeeded", "pruned", "failed"} /\ OnlyAt(s, run[s].place)'
    <3>1. \A s \in worker[q].drop : run[s].status \in {"succeeded", "pruned", "failed"} /\ OnlyAt(s, run[s].place)
      BY <2>1 DEF Dropping
    <3>2. worker[q].drop \subseteq Run
      BY <2>1 DEF Work
    <3>3. \A s \in Run : run'[s].place = run[s].place
      BY <1>6
    <3> QED
      BY <3>1, <3>2, <3>3, <1>5, <1>6 DEF OnlyAt
  <2>4. Dropping(q)'
    <3>1. CASE q = p
      BY <3>1, <2>1, <2>3, <1>2, <1>4 DEF Dropping
    <3>2. CASE q # p
      BY <3>2, <2>1, <2>3, <1>4, <1>5 DEF Dropping, NoCopy, Gone, NextToDrop
    <3> QED
      BY <3>1, <3>2
  <2> QED
    BY <2>2, <2>4
<1> QED
  BY <1>7, <1>8, <1>9, <1>10, <1>11 DEF PruneInv

LEMMA BeginPrune ==
  ASSUME Bounded, PruneInv, NEW p \in Process, Begin(p), UNCHANGED <<place, run, files, left>>
  PROVE  PruneInv'
<1>1. Shape
  BY DEF PruneInv
<1>2. CASE running[p]
  <2>1. UNCHANGED <<running, worker>>
    BY <1>2 DEF Begin
  <2> QED
    BY <2>1 DEF PruneInv, Shape, Unwritten, InPlace, OwnRun, UnderWay, Dropping, With, NoCopy, Gone, OnlyAt, Busy, NextToDrop
<1>3. CASE ~running[p]
  <2>1. PICK w : w = [Idle EXCEPT !.pc = "insert", !.place = place]
    OBVIOUS
  <2>2. Idle \in Work /\ Idle.drop = {}
    BY Resting DEF Idle
  <2>3. w \in Work /\ w.pc = "insert" /\ w.drop = {}
    BY <1>1, <2>1, <2>2 DEF Work, Shape
  <2>4. worker' = [worker EXCEPT ![p] = w] /\ running' \in [Process -> BOOLEAN] /\ place' \in Place
    BY <1>1, <1>3, <2>1 DEF Begin, Shape
  <2> QED
    BY <2>3, <2>4, PruneMoves
<1> QED
  BY <1>2, <1>3

LEMMA FinishPrune ==
  ASSUME Bounded, PruneInv, NEW p \in Process, Finish(p), UNCHANGED <<place, run, files, left>>
  PROVE  PruneInv'
<1>1. Idle \in Work /\ Idle.pc = "idle" /\ Idle.drop = {}
  BY Resting DEF Idle
<1>2. worker' = [worker EXCEPT ![p] = Idle] /\ running' \in [Process -> BOOLEAN] /\ place' \in Place
  BY DEF Finish, PruneInv, Shape
<1> QED
  BY <1>1, <1>2, PruneMoves

\* Going on from one step to another, past the row.
LEMMA GoPrune ==
  ASSUME PruneInv, NEW p \in Process, NEW pc, pc \in {"list", "fail", "idle"}, GoTo(p, pc),
         worker[p].pc \notin {"delete", "mark"}, pc = "idle" \/ Busy(p), UNCHANGED <<place, run, files, left, running>>
  PROVE  PruneInv'
<1>1. Shape /\ Dropping(p)
  BY DEF PruneInv
<1>2. worker[p] \in Work /\ worker[p].drop = {}
  BY <1>1 DEF Shape, Dropping
<1>3. PICK w : w = [worker[p] EXCEPT !.pc = pc]
  OBVIOUS
<1>4. w \in Work /\ w.pc = pc /\ w.run = worker[p].run /\ w.drop = {}
  BY <1>2, <1>3 DEF Work
<1>5. worker' = [worker EXCEPT ![p] = w] /\ running' \in [Process -> BOOLEAN] /\ place' \in Place
  BY <1>1, <1>3 DEF GoTo, Shape
<1> QED
  BY <1>4, <1>5, PruneMoves

\* Retention lists runs that succeeded, each with its copy in its place.
LEMMA ListPrune ==
  ASSUME PruneInv, NEW p \in Process, List(p)
  PROVE  PruneInv'
<1>1. Shape /\ InPlace
  BY DEF PruneInv
<1>2. worker[p] \in Work /\ worker[p].pc = "list"
  BY <1>1 DEF Shape, List, At
<1>3. PICK keep \in SUBSET With("succeeded") :
        worker' = [worker EXCEPT ![p].pc = "delete", ![p].drop = With("succeeded") \ keep]
  BY DEF List
<1>4. PICK w : w = [worker[p] EXCEPT !.pc = "delete", !.drop = With("succeeded") \ keep]
  OBVIOUS
<1>5. w \in Work /\ w.pc = "delete" /\ w.run = worker[p].run /\ w.drop = With("succeeded") \ keep
  BY <1>2, <1>4 DEF Work, With
<1>6. worker' = [worker EXCEPT ![p] = w]
  BY <1>1, <1>3, <1>4 DEF Shape
<1>7. running' \in [Process -> BOOLEAN] /\ place' \in Place /\ UNCHANGED <<run, files, left>>
  BY <1>1 DEF List, Shape
<1>8. \A r \in w.drop : run[r].status \in {"succeeded", "pruned", "failed"} /\ OnlyAt(r, run[r].place)
  BY <1>1, <1>5 DEF InPlace, With
<1>9. Busy(p)
  BY <1>2 DEF Busy
<1> QED
  BY <1>5, <1>6, <1>7, <1>8, <1>9, PruneMoves

\* A copy that is left for next time.
LEMMA DropPrune ==
  ASSUME PruneInv, NEW p \in Process, worker[p].pc \in {"delete", "mark"},
         worker' = [worker EXCEPT ![p] = Dropped(p)], UNCHANGED <<place, run, files, left, running>>
  PROVE  PruneInv'
<1>1. Shape /\ Dropping(p)
  BY DEF PruneInv
<1>2. /\ Dropped(p) \in Work
      /\ Dropped(p).pc = "delete" /\ Dropped(p).run = worker[p].run
      /\ Dropped(p).drop = worker[p].drop \ {NextToDrop(p)}
  BY <1>1, Leaving
<1>3. \A r \in Dropped(p).drop :
        run[r].status \in {"succeeded", "pruned", "failed"} /\ OnlyAt(r, run[r].place)
  BY <1>1, <1>2 DEF Dropping
<1>4. Busy(p) /\ running' \in [Process -> BOOLEAN] /\ place' \in Place
  BY <1>1 DEF Busy, Shape
<1> QED
  BY <1>2, <1>3, <1>4, PruneMoves

LEMMA ThrowPrune ==
  ASSUME Bounded, PruneInv, NEW p \in Process, Throw(p)
  PROVE  PruneInv'
<1>1. worker[p].pc \in MayThrow /\ Throws(p) /\ UNCHANGED <<place, run, files, left>>
  BY DEF Throw
<1>2. worker[p].pc \in {"insert", "dump", "record", "beat", "list", "delete", "mark", "fail", "report"}
  BY <1>1 DEF PruneInv, Shape, Work, Bounded
<1>3. CASE worker[p].pc = "insert"
  <2>1. GoTo(p, "idle") /\ UNCHANGED running
    BY <1>1, <1>3 DEF Throws, At
  <2> QED
    BY <1>1, <1>3, <2>1, GoPrune
<1>4. CASE worker[p].pc \in {"dump", "record", "beat"}
  <2>1. GoTo(p, "fail") /\ UNCHANGED running
    BY <1>1, <1>4 DEF Throws, At
  <2>2. Busy(p)
    BY <1>4 DEF Busy
  <2> QED
    BY <1>1, <1>4, <2>1, <2>2, GoPrune
<1>5. CASE worker[p].pc \in {"delete", "mark"}
  <2>1. worker' = [worker EXCEPT ![p] = Dropped(p)] /\ UNCHANGED running
    BY <1>1, <1>5 DEF Throws, At
  <2> QED
    BY <1>1, <1>5, <2>1, DropPrune
<1>6. CASE worker[p].pc \in {"list", "fail", "report"}
  <2>1. Finish(p)
    BY <1>1, <1>6 DEF Throws, At
  <2> QED
    BY <1>1, <2>1, FinishPrune
<1> QED
  BY <1>2, <1>3, <1>4, <1>5, <1>6

LEMMA RunStepPrune ==
  ASSUME Bounded, PruneInv, NEW p \in Process, RunStep(p)
  PROVE  PruneInv'
<1>1. CASE Insert(p)
  BY <1>1, InsertPrune
<1>2. CASE Dump(p)
  BY <1>2, DumpPrune
<1>3. CASE Record(p)
  BY <1>3, RecordPrune
<1>4. CASE Beat(p)
  <2>1. worker[p].pc = "beat" /\ GoTo(p, "list") /\ UNCHANGED <<place, run, files, left, running>>
    BY <1>4 DEF Beat, At
  <2>2. Busy(p)
    BY <2>1 DEF Busy
  <2> QED
    BY <2>1, <2>2, GoPrune
<1>5. CASE List(p)
  BY <1>5, ListPrune
<1>6. CASE Delete(p)
  BY <1>6, DeletePrune
<1>7. CASE Mark(p)
  BY <1>7, MarkPrune
<1>8. CASE End(p)
  BY <1>8, FinishPrune DEF End
<1>9. CASE Fail(p)
  BY <1>9, FailPrune
<1>10. CASE Report(p)
  BY <1>10, FinishPrune DEF Report
<1> QED
  BY <1>1, <1>2, <1>3, <1>4, <1>5, <1>6, <1>7, <1>8, <1>9, <1>10 DEF RunStep

LEMMA NextPrune == Bounded /\ PruneInv /\ [Next]_vars => PruneInv'
<1> SUFFICES ASSUME Bounded, PruneInv, [Next]_vars PROVE PruneInv'
  OBVIOUS
<1>1. ASSUME place' \in Place, UNCHANGED <<run, files, left, running, worker>> PROVE PruneInv'
  BY <1>1 DEF PruneInv, Shape, Unwritten, InPlace, OwnRun, UnderWay, Dropping, With, NoCopy, Gone, OnlyAt, Busy, NextToDrop
<1>2. ASSUME NEW p \in Process, RunDue(p) PROVE PruneInv'
  BY <1>2, BeginPrune DEF RunDue
<1>3. ASSUME NEW p \in Process, BackUpNow(p) PROVE PruneInv'
  BY <1>3, BeginPrune DEF BackUpNow
<1>4. ASSUME NEW p \in Process, RunStep(p) PROVE PruneInv'
  BY <1>4, RunStepPrune
<1>5. ASSUME NEW p \in Process, Throw(p) PROVE PruneInv'
  BY <1>5, ThrowPrune
<1>6. ASSUME NEW p \in Process, Crash(p) PROVE PruneInv'
  BY <1>6, FinishPrune DEF Crash
<1>7. CASE BecomesDue
  BY <1>1, <1>7 DEF BecomesDue, PruneInv, Shape
<1>8. ASSUME NEW to \in Place, SaveJob(to) PROVE PruneInv'
  BY <1>1, <1>8 DEF SaveJob
<1>9. CASE UNCHANGED vars
  BY <1>1, <1>9 DEF vars, PruneInv, Shape
<1> QED
  BY <1>2, <1>3, <1>4, <1>5, <1>6, <1>7, <1>8, <1>9 DEF Next

\* Every reachable state of the backups is well typed.
THEOREM TypeCorrect == Bounded /\ Spec => []TypeOK
<1> SUFFICES ASSUME Bounded PROVE Spec => []TypeOK
  OBVIOUS
<1> DEFINE Counts == due \in BOOLEAN /\ faults \in 0 .. MaxFaults
<1>1. Init => PruneInv /\ Counts
  <2> SUFFICES ASSUME Init PROVE PruneInv /\ Counts
    OBVIOUS
  <2>1. PruneInv
    BY InitPrune
  <2>2. due = FALSE /\ faults = 0
    BY DEF Init
  <2>3. faults \in 0 .. MaxFaults
    BY <2>2 DEF Bounded
  <2> QED
    BY <2>1, <2>2, <2>3
<1>2. PruneInv /\ Counts /\ [Next]_vars => PruneInv' /\ Counts'
  <2> SUFFICES ASSUME PruneInv, Counts, [Next]_vars PROVE PruneInv' /\ Counts'
    OBVIOUS
  <2>1. PruneInv'
    BY NextPrune
  <2>2. due' \in BOOLEAN
    BY DEF Next, vars, RunDue, BackUpNow, RunStep, Insert, Dump, Record, Beat, List, Delete, Mark, End,
           Fail, Report, Throw, Crash, BecomesDue, SaveJob
  <2>3. faults' = faults \/ (faults < MaxFaults /\ faults' = faults + 1)
    <3>1. ASSUME NEW p \in Process, RunStep(p) PROVE faults' = faults
      BY <3>1 DEF RunStep, Insert, Dump, Record, Beat, List, Delete, Mark, End, Fail, Report
    <3>2. ASSUME NEW p \in Process, RunDue(p) \/ BackUpNow(p) PROVE faults' = faults
      BY <3>2 DEF RunDue, BackUpNow
    <3>3. ASSUME NEW p \in Process, Throw(p) \/ Crash(p) PROVE faults < MaxFaults /\ faults' = faults + 1
      BY <3>3 DEF Throw, Crash
    <3>4. BecomesDue \/ UNCHANGED vars => faults' = faults
      BY DEF BecomesDue, vars
    <3>5. ASSUME NEW to \in Place, SaveJob(to) PROVE faults' = faults
      BY <3>5 DEF SaveJob
    <3>6. CASE \E p \in Process : RunDue(p) \/ BackUpNow(p) \/ RunStep(p) \/ Throw(p) \/ Crash(p)
      BY <3>1, <3>2, <3>3, <3>6
    <3> QED
      BY <3>4, <3>5, <3>6 DEF Next
  <2>4. faults' \in 0 .. MaxFaults
    BY <2>3 DEF Bounded
  <2> QED
    BY <2>1, <2>2, <2>4
<1>3. PruneInv /\ Counts => TypeOK
  BY DEF PruneInv, Shape, TypeOK, Row, Work
<1> QED
  BY <1>1, <1>2, <1>3, PTL DEF Spec

\* A pruned run has left no copy behind (applyRetention deletes before it marks),
\* though others prune, write and die at the same time, unless it was pruned by a
\* job that had another bucket then.
THEOREM NothingIsLeftBehind == Bounded /\ Spec => []PrunedGone
<1> SUFFICES ASSUME Bounded PROVE Spec => []PrunedGone
  OBVIOUS
<1>1. Spec => []PruneInv
  BY InitPrune, NextPrune, PTL DEF Spec
<1>2. PruneInv => PrunedGone
  BY DEF PruneInv, Unwritten, NoCopy, Gone, PrunedGone, With
<1> QED
  BY <1>1, <1>2, PTL

-----------------------------------------------------------------------------
(* The newest backup is kept. *)

\* Once a copy was recorded its row says where, and a newer one was recorded.
Surpassed(r) == \E s \in Recorded : s > r

\* Whatever is to be dropped, a newer run had its copy recorded.
Newer == \A p \in Process : \A r \in worker[p].drop : Surpassed(r)

\* A run that succeeded has its copy, unless a newer one was recorded.
Stored ==
  \A r \in With("succeeded") : r \in Recorded /\ (<<r, run[r].place>> \in files \/ Surpassed(r))

\* What is about to be recorded is there.
Written(p) == worker[p].pc = "record" => <<worker[p].run, worker[p].place>> \in files

KeepInv == Newer /\ Stored /\ \A p \in Process : Written(p)

LEMMA InitKeep == Init => KeepInv
BY DEF Init, KeepInv, Newer, Stored, Written, With, Idle

\* What a step may do: record a copy that is there, delete one that a newer run
\* surpasses, and take up such runs to drop.
LEMMA Keeps ==
  ASSUME KeepInv,
         Recorded \subseteq Recorded',
         \A r \in With("succeeded")' :
           \/ r \in With("succeeded") /\ run'[r].place = run[r].place
           \/ r \in Recorded' /\ <<r, run'[r].place>> \in files',
         \A f \in files \ files' : Surpassed(f[1]),
         \A p \in Process : \A r \in worker'[p].drop : r \in worker[p].drop \/ Surpassed(r),
         \A p \in Process : Written(p)'
  PROVE  KeepInv'
<1>1. \A r : Surpassed(r) => Surpassed(r)'
  BY DEF Surpassed
<1>2. Newer'
  BY <1>1 DEF KeepInv, Newer
<1>3. ASSUME NEW r \in With("succeeded")'
      PROVE  r \in Recorded' /\ (<<r, run'[r].place>> \in files' \/ Surpassed(r)')
  <2>1. CASE r \in Recorded' /\ <<r, run'[r].place>> \in files'
    BY <2>1
  <2>2. CASE r \in With("succeeded") /\ run'[r].place = run[r].place
    <3>1. r \in Recorded /\ (<<r, run[r].place>> \in files \/ Surpassed(r))
      BY <2>2 DEF KeepInv, Stored
    <3>2. <<r, run[r].place>> \in files \ files' => Surpassed(r)
      OBVIOUS
    <3> QED
      BY <2>2, <3>1, <3>2, <1>1
  <2> QED
    BY <1>3, <2>1, <2>2
<1>4. Stored'
  BY <1>3 DEF Stored
<1> QED
  BY <1>2, <1>4 DEF KeepInv

\* One process moves on, and nothing else does.
LEMMA KeepMoves ==
  ASSUME PruneInv, KeepInv, NEW p \in Process, NEW w \in Work, w.pc # "record",
         \A r \in w.drop : r \in worker[p].drop \/ Surpassed(r),
         worker' = [worker EXCEPT ![p] = w], UNCHANGED <<run, files>>
  PROVE  KeepInv'
<1>1. /\ worker'[p] = w
      /\ \A q \in Process : q # p => worker'[q] = worker[q]
  BY Taking DEF PruneInv
<1>2. Recorded' = Recorded /\ With("succeeded")' = With("succeeded")
  BY DEF Recorded, With
<1>3. \A q \in Process : Written(q)'
  BY <1>1 DEF KeepInv, Written
<1>4. \A q \in Process : \A r \in worker'[q].drop : r \in worker[q].drop \/ Surpassed(r)
  BY <1>1
<1> QED
  BY <1>2, <1>3, <1>4, Keeps

\* A row moves on, but not to a success.
LEMMA KeepRow ==
  ASSUME PruneInv, KeepInv, NEW p \in Process, NEW r \in Run,
         run'[r].status # "succeeded", run'[r].place = run[r].place,
         \A s \in Run : s # r => run'[s] = run[s],
         worker'[p].pc # "record", worker'[p].drop \subseteq worker[p].drop,
         \A q \in Process : q # p => worker'[q] = worker[q],
         files' = files
  PROVE  KeepInv'
<1>1. Recorded \subseteq Recorded'
  BY DEF Recorded
<1>2. \A s \in With("succeeded")' : s \in With("succeeded") /\ run'[s].place = run[s].place
  BY DEF With
<1>3. \A q \in Process : Written(q)'
  BY DEF KeepInv, Written
<1>4. \A q \in Process : \A s \in worker'[q].drop : s \in worker[q].drop
  OBVIOUS
<1> QED
  BY <1>1, <1>2, <1>3, <1>4, Keeps

LEMMA InsertKeep ==
  ASSUME Bounded, PruneInv, KeepInv, NEW p \in Process, Insert(p)
  PROVE  KeepInv'
<1> DEFINE r == Min(With("none"))
<1>1. Shape
  BY DEF PruneInv
<1>2. r \in Run /\ r \in 0 .. MaxRuns
  <2>1. With("none") \subseteq Run /\ With("none") # {}
    BY DEF Insert, With
  <2>2. r \in With("none")
    BY <2>1, Oldest DEF Bounded
  <2> QED
    BY <2>2 DEF With, Run, Bounded
<1> HIDE DEF r
<1>3. SetStatus(r, "running") /\ worker' = [worker EXCEPT ![p].pc = "dump", ![p].run = r] /\ files' = files
  BY DEF Insert, r
<1>4. /\ run'[r].status = "running" /\ run'[r].place = run[r].place
      /\ \A s \in Run : s # r => run'[s] = run[s]
  BY <1>1, <1>2, <1>3, Setting
<1>5. worker[p] \in Work
  BY <1>1 DEF Shape
<1>6. /\ worker'[p].pc = "dump" /\ worker'[p].drop = worker[p].drop
      /\ \A q \in Process : q # p => worker'[q] = worker[q]
  BY <1>1, <1>3, <1>5 DEF Shape, Work
<1> QED
  BY <1>2, <1>3, <1>4, <1>6, KeepRow

LEMMA FailKeep ==
  ASSUME PruneInv, KeepInv, NEW p \in Process, Fail(p)
  PROVE  KeepInv'
<1>1. Shape /\ UnderWay(p)
  BY DEF PruneInv
<1>2. worker[p].pc = "fail" /\ files' = files
  BY DEF Fail, At
<1>3. PICK r \in Run : r = worker[p].run
  BY <1>1, <1>2 DEF UnderWay, Busy
<1>4. /\ run'[r].status = "failed" /\ run'[r].place = run[r].place
      /\ \A s \in Run : s # r => run'[s] = run[s]
  BY <1>1, <1>3, Setting DEF Fail
<1>5. /\ worker'[p].pc = "report" /\ worker'[p].drop = worker[p].drop
      /\ \A q \in Process : q # p => worker'[q] = worker[q]
  BY <1>1, Going DEF Fail
<1> QED
  BY <1>2, <1>4, <1>5, KeepRow

LEMMA MarkKeep ==
  ASSUME PruneInv, KeepInv, NEW p \in Process, Mark(p)
  PROVE  KeepInv'
<1>1. Shape /\ Dropping(p)
  BY DEF PruneInv
<1>2. worker[p] \in Work /\ worker[p].drop # {} /\ files' = files
  BY <1>1 DEF Shape, Mark, At, Dropping
<1>3. PICK r \in Run : r = NextToDrop(p)
  BY <1>2 DEF Work, NextToDrop
<1>4. /\ run'[r].status = "pruned" /\ run'[r].place = run[r].place
      /\ \A s \in Run : s # r => run'[s] = run[s]
  BY <1>1, <1>3, Setting DEF Mark
<1>5. Dropped(p) \in Work /\ Dropped(p).pc = "delete" /\ Dropped(p).drop \subseteq worker[p].drop
  BY <1>1, Leaving
<1>6. worker'[p] = Dropped(p) /\ \A q \in Process : q # p => worker'[q] = worker[q]
  BY <1>1, <1>5, Taking DEF Mark
<1> QED
  BY <1>2, <1>4, <1>5, <1>6, KeepRow

\* There is a copy now, and the one that is about to be recorded is it.
LEMMA DumpKeep ==
  ASSUME PruneInv, KeepInv, NEW p \in Process, Dump(p)
  PROVE  KeepInv'
<1>1. Shape
  BY DEF PruneInv
<1>2. /\ worker'[p].run = worker[p].run
      /\ worker'[p].place = worker[p].place /\ worker'[p].drop = worker[p].drop
      /\ \A q \in Process : q # p => worker'[q] = worker[q]
  BY <1>1, Going DEF Dump
<1>3. files' = files \cup {<<worker[p].run, worker[p].place>>} /\ run' = run
  BY DEF Dump
<1>4. Recorded' = Recorded /\ With("succeeded")' = With("succeeded")
  BY <1>3 DEF Recorded, With
<1>5. \A q \in Process : Written(q)'
  BY <1>2, <1>3 DEF KeepInv, Written
<1>6. files \ files' = {} /\ \A q \in Process : worker'[q].drop = worker[q].drop
  BY <1>2, <1>3
<1>7. \A r \in With("succeeded")' : r \in With("succeeded") /\ run'[r].place = run[r].place
  BY <1>3, <1>4
<1> QED
  BY <1>4, <1>5, <1>6, <1>7, Keeps

LEMMA RecordKeep ==
  ASSUME Bounded, PruneInv, KeepInv, NEW p \in Process, Record(p)
  PROVE  KeepInv'
<1>1. Shape /\ UnderWay(p)
  BY DEF PruneInv
<1>2. worker[p] \in Work /\ worker[p].pc = "record" /\ files' = files
  BY <1>1 DEF Shape, Record, At
<1>3. PICK r \in Run : r = worker[p].run
  BY <1>1, <1>2 DEF UnderWay, Busy
<1>4. <<r, worker[p].place>> \in files /\ worker[p].place # "nowhere"
  BY <1>2, <1>3 DEF KeepInv, Written, Work, Place, Bounded
<1>5. /\ run'[r].place = worker[p].place
      /\ \A s \in Run : s # r => run'[s] = run[s]
  BY <1>1, <1>3 DEF Shape, Record
<1>6. /\ worker'[p].pc = "beat" /\ worker'[p].drop = worker[p].drop
      /\ \A q \in Process : q # p => worker'[q] = worker[q]
  BY <1>1, Going DEF Record
<1>7. r \in Recorded' /\ Recorded \subseteq Recorded'
  BY <1>4, <1>5 DEF Recorded
<1>8. ASSUME NEW s \in With("succeeded")'
      PROVE  \/ s \in With("succeeded") /\ run'[s].place = run[s].place
             \/ s \in Recorded' /\ <<s, run'[s].place>> \in files'
  <2>1. CASE s = r
    BY <2>1, <1>2, <1>4, <1>5, <1>7
  <2>2. CASE s # r
    BY <1>8, <2>2, <1>5 DEF With
  <2> QED
    BY <2>1, <2>2
<1>9. \A q \in Process : Written(q)'
  BY <1>2, <1>6 DEF KeepInv, Written
<1>10. \A q \in Process : worker'[q].drop = worker[q].drop
  BY <1>6
<1> QED
  BY <1>2, <1>7, <1>8, <1>9, <1>10, Keeps

\* Only a copy of what is dropped is deleted, which nobody is about to record.
LEMMA DeleteKeep ==
  ASSUME PruneInv, KeepInv, NEW p \in Process, Delete(p)
  PROVE  KeepInv'
<1>1. Shape /\ \A q \in Process : UnderWay(q) /\ Dropping(q)
  BY DEF PruneInv
<1>2. worker[p] \in Work /\ worker[p].drop # {} /\ run' = run
  BY <1>1 DEF Shape, Delete, At
<1>3. PICK r : r = NextToDrop(p)
  OBVIOUS
<1>4. r \in worker[p].drop
  BY <1>2, <1>3 DEF NextToDrop
<1>5. CASE ~Deletable(p, r)
  <2>1. files' = files /\ worker' = [worker EXCEPT ![p] = Dropped(p)]
    BY <1>3, <1>5 DEF Delete
  <2>2. Dropped(p) \in Work /\ Dropped(p).pc = "delete" /\ Dropped(p).drop \subseteq worker[p].drop
    BY <1>1, Leaving
  <2> QED
    BY <2>1, <2>2, <1>2, KeepMoves
<1>6. CASE Deletable(p, r)
  <2>1. files' = files \ {<<r, DeletedAt(p, r)>>} /\ GoTo(p, "mark")
    BY <1>3, <1>6 DEF Delete, DeleteCopy
  <2>2. /\ worker'[p].pc = "mark" /\ worker'[p].drop = worker[p].drop
        /\ \A q \in Process : q # p => worker'[q] = worker[q]
    BY <1>1, <2>1, Going
  <2>3. ASSUME NEW f \in files \ files' PROVE Surpassed(f[1])
    <3>1. f[1] = r
      BY <2>1
    <3> QED
      BY <3>1, <1>4 DEF KeepInv, Newer
  <2>4. ASSUME NEW q \in Process PROVE Written(q)'
    <3>1. CASE q = p
      BY <2>2, <3>1 DEF Written
    <3>2. CASE q # p
      <4>1. worker'[q] = worker[q] /\ Written(q)
        BY <2>2, <3>2 DEF KeepInv
      <4>2. worker[q].pc = "record" => run[worker[q].run].status = "running"
        BY <1>1 DEF UnderWay, Busy
      <4>3. run[r].status # "running"
        BY <1>1, <1>4 DEF Dropping
      <4>4. worker[q].pc = "record" => <<worker[q].run, worker[q].place>> # <<r, DeletedAt(p, r)>>
        BY <4>2, <4>3
      <4> QED
        BY <4>1, <4>4, <2>1 DEF Written
    <3> QED
      BY <3>1, <3>2
  <2>5. Recorded' = Recorded /\ With("succeeded")' = With("succeeded")
    BY <1>2 DEF Recorded, With
  <2>6. \A s \in With("succeeded")' : s \in With("succeeded") /\ run'[s].place = run[s].place
    BY <1>2, <2>5
  <2>7. \A q \in Process : worker'[q].drop = worker[q].drop
    BY <2>2
  <2> QED
    BY <2>3, <2>4, <2>5, <2>6, <2>7, Keeps
<1> QED
  BY <1>5, <1>6

\* What retention drops is older than the newest it listed, which was recorded.
LEMMA ListKeep ==
  ASSUME Bounded, PruneInv, KeepInv, NEW p \in Process, List(p)
  PROVE  KeepInv'
<1>1. Shape
  BY DEF PruneInv
<1>2. worker[p] \in Work /\ UNCHANGED <<run, files>>
  BY <1>1 DEF Shape, List
<1>3. PICK keep \in SUBSET With("succeeded") :
        /\ Keep(With("succeeded"), keep)
        /\ worker' = [worker EXCEPT ![p].pc = "delete", ![p].drop = With("succeeded") \ keep]
  BY DEF List
<1>4. PICK w : w = [worker[p] EXCEPT !.pc = "delete", !.drop = With("succeeded") \ keep]
  OBVIOUS
<1>5. w \in Work /\ w.pc = "delete" /\ w.drop = With("succeeded") \ keep
  BY <1>2, <1>4 DEF Work, With
<1>6. worker' = [worker EXCEPT ![p] = w]
  BY <1>1, <1>3, <1>4 DEF Shape
<1>7. ASSUME NEW r \in w.drop PROVE Surpassed(r)
  <2>1. With("succeeded") \subseteq Run /\ r \in With("succeeded") /\ r \notin keep
    BY <1>5 DEF With
  <2>2. PICK m : m = Max(With("succeeded"))
    OBVIOUS
  <2>3. m \in With("succeeded") /\ m >= r
    BY <2>1, <2>2, Greatest DEF Bounded
  <2>4. m \in keep
    BY <1>3, <2>1, <2>2 DEF Keep
  <2>5. m # r /\ m \in Nat /\ r \in Nat
    BY <2>1, <2>3, <2>4 DEF Run
  <2>6. m \in Recorded
    BY <2>3 DEF KeepInv, Stored
  <2> QED
    BY <2>3, <2>5, <2>6 DEF Surpassed
<1> QED
  BY <1>2, <1>5, <1>6, <1>7, KeepMoves

LEMMA BeginKeep ==
  ASSUME Bounded, PruneInv, KeepInv, NEW p \in Process, Begin(p), UNCHANGED <<run, files>>
  PROVE  KeepInv'
<1>1. CASE running[p]
  <2>1. worker' = worker
    BY <1>1 DEF Begin
  <2> QED
    BY <2>1 DEF KeepInv, Newer, Stored, Written, Surpassed, Recorded, With
<1>2. CASE ~running[p]
  <2>1. PICK w : w = [Idle EXCEPT !.pc = "insert", !.place = place]
    OBVIOUS
  <2>2. w \in Work /\ w.pc = "insert" /\ w.drop = {}
    BY <2>1, Resting DEF Work, PruneInv, Shape, Idle
  <2>3. worker' = [worker EXCEPT ![p] = w]
    BY <1>2, <2>1 DEF Begin
  <2> QED
    BY <2>2, <2>3, KeepMoves
<1> QED
  BY <1>1, <1>2

LEMMA FinishKeep ==
  ASSUME Bounded, PruneInv, KeepInv, NEW p \in Process, Finish(p), UNCHANGED <<run, files>>
  PROVE  KeepInv'
<1>1. Idle \in Work /\ Idle.pc = "idle" /\ Idle.drop = {}
  BY Resting DEF Idle
<1> QED
  BY <1>1, KeepMoves DEF Finish

LEMMA GoKeep ==
  ASSUME PruneInv, KeepInv, NEW p \in Process, NEW pc, pc \in {"list", "fail", "idle"}, GoTo(p, pc),
         UNCHANGED <<run, files>>
  PROVE  KeepInv'
<1>1. Shape
  BY DEF PruneInv
<1>2. worker[p] \in Work
  BY <1>1 DEF Shape
<1>3. PICK w : w = [worker[p] EXCEPT !.pc = pc]
  OBVIOUS
<1>4. w \in Work /\ w.pc = pc /\ w.drop = worker[p].drop
  BY <1>2, <1>3 DEF Work
<1>5. worker' = [worker EXCEPT ![p] = w]
  BY <1>1, <1>3 DEF GoTo, Shape
<1> QED
  BY <1>4, <1>5, KeepMoves

LEMMA ThrowKeep ==
  ASSUME Bounded, PruneInv, KeepInv, NEW p \in Process, Throw(p)
  PROVE  KeepInv'
<1>1. worker[p].pc \in MayThrow /\ Throws(p) /\ UNCHANGED <<run, files>>
  BY DEF Throw
<1>2. worker[p].pc \in {"insert", "dump", "record", "beat", "list", "delete", "mark", "fail", "report"}
  BY <1>1 DEF PruneInv, Shape, Work, Bounded
<1>3. CASE worker[p].pc = "insert"
  <2>1. GoTo(p, "idle")
    BY <1>1, <1>3 DEF Throws, At
  <2> QED
    BY <1>1, <2>1, GoKeep
<1>4. CASE worker[p].pc \in {"dump", "record", "beat"}
  <2>1. GoTo(p, "fail")
    BY <1>1, <1>4 DEF Throws, At
  <2> QED
    BY <1>1, <2>1, GoKeep
<1>5. CASE worker[p].pc \in {"delete", "mark"}
  <2>1. worker' = [worker EXCEPT ![p] = Dropped(p)]
    BY <1>1, <1>5 DEF Throws, At
  <2>2. Dropped(p) \in Work /\ Dropped(p).pc = "delete" /\ Dropped(p).drop \subseteq worker[p].drop
    BY Leaving DEF PruneInv
  <2> QED
    BY <1>1, <2>1, <2>2, KeepMoves
<1>6. CASE worker[p].pc \in {"list", "fail", "report"}
  <2>1. Finish(p)
    BY <1>1, <1>6 DEF Throws, At
  <2> QED
    BY <1>1, <2>1, FinishKeep
<1> QED
  BY <1>2, <1>3, <1>4, <1>5, <1>6

LEMMA NextKeep == Bounded /\ PruneInv /\ KeepInv /\ [Next]_vars => KeepInv'
<1> SUFFICES ASSUME Bounded, PruneInv, KeepInv, [Next]_vars PROVE KeepInv'
  OBVIOUS
<1>1. ASSUME UNCHANGED <<run, files, worker>> PROVE KeepInv'
  BY <1>1 DEF KeepInv, Newer, Stored, Written, Surpassed, Recorded, With
<1>2. ASSUME NEW p \in Process, RunDue(p) \/ BackUpNow(p) PROVE KeepInv'
  BY <1>2, BeginKeep DEF RunDue, BackUpNow
<1>3. ASSUME NEW p \in Process, Insert(p) \/ Dump(p) \/ Record(p) \/ List(p) PROVE KeepInv'
  BY <1>3, InsertKeep, DumpKeep, RecordKeep, ListKeep
<1>4. ASSUME NEW p \in Process, Delete(p) \/ Mark(p) \/ Fail(p) PROVE KeepInv'
  BY <1>4, DeleteKeep, MarkKeep, FailKeep
<1>5. ASSUME NEW p \in Process, Beat(p) PROVE KeepInv'
  BY <1>5, GoKeep DEF Beat
<1>6. ASSUME NEW p \in Process, End(p) \/ Report(p) \/ Crash(p) PROVE KeepInv'
  BY <1>6, FinishKeep DEF End, Report, Crash
<1>7. ASSUME NEW p \in Process, Throw(p) PROVE KeepInv'
  BY <1>7, ThrowKeep
<1>8. CASE BecomesDue \/ UNCHANGED vars
  BY <1>1, <1>8 DEF BecomesDue, vars
<1>9. ASSUME NEW to \in Place, SaveJob(to) PROVE KeepInv'
  BY <1>1, <1>9 DEF SaveJob
<1> QED
  BY <1>2, <1>3, <1>4, <1>5, <1>6, <1>7, <1>8, <1>9 DEF Next, RunStep

\* "The newest backup is always kept" (applyRetention): while the job stores where
\* its newest backup is, and counts that one as a success, it can be restored
\* (openDecryptedBackup), through the errors of any statement and through crashes.
THEOREM NewestIsRestorable == Bounded /\ Spec => []NewestRestorable
<1> SUFFICES ASSUME Bounded PROVE Spec => []NewestRestorable
  OBVIOUS
<1>1. Spec => [](PruneInv /\ KeepInv)
  BY InitPrune, NextPrune, InitKeep, NextKeep, PTL DEF Spec
<1>2. KeepInv => NewestRestorable
  <2> SUFFICES ASSUME KeepInv, NEW r \in With("succeeded"), Newest(r), run[r].place \in {"local", place}
               PROVE  Restorable(r)
    BY DEF NewestRestorable
  <2>1. r \in Nat /\ \A s \in Recorded : s \in Nat
    BY DEF With, Recorded, Run
  <2>2. ~Surpassed(r)
    BY <2>1 DEF Surpassed, Newest
  <2>3. <<r, run[r].place>> \in files
    BY <2>2 DEF KeepInv, Stored
  <2> QED
    BY <2>3 DEF Restorable, With
<1> QED
  BY <1>1, <1>2, PTL
=============================================================================
