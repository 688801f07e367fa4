------------------------- MODULE ContinuationProofs -------------------------
(***************************************************************************)
(* Proofs about Continuation, for any set of jobs and triggers, any number *)
(* of consumers and any bounds.                                            *)
(***************************************************************************)
EXTENDS Continuation, FiniteSetTheorems, NaturalsInduction, TLAPS

(* What the rows say of one another *)

\* A job that is not there has no run and no event; only such jobs are being
\* created.
Existence ==
  /\ \A j \in Jobs : jobState[j] = "absent" => \A k \in Ticks : runs[j][k] = "none"
  /\ \A e \in pending : jobState[e[1]] # "absent"
  /\ \A j \in creating : jobState[j] = "absent" /\ Trigger[j] # NoJob

\* A worker's run is RUNNING, unless a cancel has overwritten it.
WorkersRun ==
  \A j \in Jobs, k \in Ticks : <<j, k>> \in working =>
    runs[j][k] = "RUNNING" \/ (jobState[j] = "cancelled" /\ runs[j][k] # "none")

\* An event tells the status its run has, unless the job has been cancelled.
EventsTell ==
  \A j \in Jobs, k \in Ticks, s \in Terminal : <<j, k, s>> \in pending =>
    jobState[j] = "cancelled" \/ runs[j][k] = s

\* An open cancel holds an active job's row and flips runs that are there.
CancelsHold ==
  /\ \A j \in cancelling : jobState[j] = "active"
  /\ \A j \in Jobs, k \in Ticks : k \in flips[j] => j \in cancelling /\ runs[j][k] # "none"

(* What the open transactions of the consumers hold *)

\* The event a consumer handles was there, and its job is as it was loaded or
\* has moved on.
EventLoaded(c) ==
  cpc[c] # "idle" =>
    /\ cEvent[c] \in Events
    /\ jobState[cEvent[c][1]] # "absent"
    /\ cEvent[c][1] \in Recurring => cEvent[c][2] < MaxTicks
    /\ jobState[cEvent[c][1]] = "cancelled" \/ runs[cEvent[c][1]][cEvent[c][2]] = cEvent[c][3]
    /\ cSeen[c] = "cancelled" => jobState[cEvent[c][1]] = "cancelled"

\* A listed job is triggered by the event's job.
Listed(c) ==
  /\ cpc[c] \in {"idle", "loaded"} => cDowns[c] = {} /\ cSpawn[c] = {} /\ cLocked[c] = {}
  /\ cpc[c] # "checked" => cSettle[c] = {} /\ cDrop[c] = {}
  /\ \A d \in cDowns[c] : jobState[d] # "absent" /\ Trigger[d] = cEvent[c][1]

\* A consumer that inserts a run has locked its job; the run is not there and
\* no run of the job is executing.
Spawns(c) ==
  \A j \in Jobs, k \in Ticks : <<j, k>> \in cSpawn[c] =>
    /\ j \in cLocked[c]
    /\ jobState[j] # "absent"
    /\ runs[j][k] = "none"
    /\ jobState[j] = "cancelled" \/ ~HasExecutingRun(j)

\* It inserts one run of a job: the next tick of the event's job, or the run its
\* event has triggered.
SpawnsOne(c) ==
  \A j \in Jobs, k \in Ticks : <<j, k>> \in cSpawn[c] =>
    \/ /\ j = cEvent[c][1] /\ k = cEvent[c][2] + 1 /\ j \in Recurring
    \/ /\ Trigger[j] = cEvent[c][1] /\ k = cEvent[c][2] /\ cpc[c] = "checked"

\* It settles active jobs whose rows it has locked.
Settles(c) == \A j \in cSettle[c] : jobState[j] = "active" /\ j \notin cancelling

\* No two consumers hold the same lock.
LocksExclusive ==
  \A c, x \in Consumers : c # x =>
    cLocked[c] \intersect cLocked[x] = {} /\ cSettle[c] \intersect cSettle[x] = {}

(* The recurrence *)

\* The ticks of a recurring job come one after the other, and each run that has
\* ended has its successor or an event that is still to be handled.
TicksInOrder ==
  \A j \in Recurring : jobState[j] \notin {"absent", "cancelled"} =>
    /\ runs[j][1] # "none"
    /\ \A k1, k2 \in Ticks : k1 < k2 /\ runs[j][k2] # "none" => runs[j][k1] \in Terminal
    /\ \A k \in Ticks : runs[j][k] \in Terminal =>
         \/ <<j, k, runs[j][k]>> \in pending
         \/ k < MaxTicks /\ runs[j][k + 1] # "none"

\* A consumer past the insert has the successor in hand, or finds it there.
Succeeds(c) ==
  /\ cpc[c] \in {"listed", "checked"} /\ cEvent[c][1] \in Recurring
  /\ jobState[cEvent[c][1]] # "cancelled"
  => \/ <<cEvent[c][1], cEvent[c][2] + 1>> \in cSpawn[c]
     \/ runs[cEvent[c][1]][cEvent[c][2] + 1] # "none"

----------------------------------------------------------------------------
\* What holds of the committed rows.
RowsInv == Existence /\ WorkersRun /\ EventsTell /\ CancelsHold

\* What holds of the open transaction of a consumer.
TxInv(c) == EventLoaded(c) /\ Listed(c) /\ Spawns(c) /\ SpawnsOne(c) /\ Settles(c) /\ Succeeds(c)

\* The inductive invariant.
IInv ==
  /\ TypeOK /\ RowsInv
  /\ \A c \in Consumers : TxInv(c)
  /\ LocksExclusive /\ OneExecutingRun /\ TicksInOrder

----------------------------------------------------------------------------
(* Helpers *)

\* An event is a triple.
LEMMA EventShape ==
  ASSUME NEW e \in Events
  PROVE  /\ e[1] \in Jobs /\ e[2] \in Ticks /\ e[3] \in Terminal
         /\ e = <<e[1], e[2], e[3]>>
  BY DEF Events

\* A run is named by its job and its tick.
LEMMA RunShape ==
  ASSUME NEW r \in RunIds
  PROVE  r[1] \in Jobs /\ r[2] \in Ticks /\ r = <<r[1], r[2]>>
  BY DEF RunIds

\* settle_check settles active jobs without an executing run whose trigger parent
\* is not active or is settled too; recurring jobs never.
LEMMA SettleCheckFacts ==
  ASSUME NEW roots, NEW st, NEW busy, NEW j \in SettleCheck(roots, st, busy)
  PROVE  /\ j \in Jobs /\ j \notin Recurring
         /\ st[j] = "active" /\ j \notin busy
         /\ \/ Trigger[j] = NoJob
            \/ Trigger[j] \in SettleCheck(roots, st, busy)
            \/ st[Trigger[j]] # "active"
         /\ j \in roots \/ Trigger[j] \in SettleCheck(roots, st, busy)
  BY DEF SettleCheck

\* The statuses are different.
LEMMA Statuses ==
  /\ "none" \notin Executing /\ "none" \notin Terminal
  /\ "PENDING" \in Executing /\ "RUNNING" \in Executing /\ "RETRYING" \in Executing
  /\ \A s \in Terminal : s \notin Executing
  /\ {"SUCCEEDED", "FAILED", "CANCELLED"} \subseteq Terminal
  /\ \A s \in Cancellable : s \in Executing
  BY DEF Executing, Cancellable, Terminal

\* At the start the existing jobs wait for their first run.
LEMMA InitInv == Init => IInv
<1> SUFFICES ASSUME Init PROVE IInv
  OBVIOUS
<1> USE ContinuationAssumption DEF Init
<1>1. TypeOK
  BY DEF TypeOK, JobState, Executing, Cancellable, Terminal, FirstRun, Ticks, Events, NoEvent
<1>2. RowsInv
  BY DEF RowsInv, Existence, WorkersRun, EventsTell, CancelsHold, FirstRun, Ticks
<1>3. \A c \in Consumers : TxInv(c)
  BY DEF TxInv, EventLoaded, Listed, Spawns, SpawnsOne, Settles, Succeeds
<1>4. LocksExclusive
  BY DEF LocksExclusive
<1>5. OneExecutingRun
  BY DEF OneExecutingRun, FirstRun, Ticks, Executing, Cancellable
<1>6. TicksInOrder
  BY DEF TicksInOrder, FirstRun, Ticks, Terminal
<1> QED
  BY <1>1, <1>2, <1>3, <1>4, <1>5, <1>6 DEF IInv

----------------------------------------------------------------------------
(* task.create *)

\* A new job comes with its first run or with none.
LEMMA CreateInv ==
  ASSUME IInv, NEW j \in Jobs, CreateScheduled(j) \/ CreateValidates(j) \/ CreateCommits(j)
  PROVE  IInv'
<1> USE ContinuationAssumption DEF IInv
<1>1. CASE CreateScheduled(j)
  <2> USE DEF CreateScheduled
  <2>1. /\ jobState' = [jobState EXCEPT ![j] = "active"]
        /\ runs' = [runs EXCEPT ![j] = FirstRun(j)]
        /\ jobState[j] = "absent" /\ Trigger[j] = NoJob
        /\ UNCHANGED <<creating, working, pending, dropped, cancelVars, txVars>>
    BY <1>1
  <2>2. TypeOK'
    BY <2>1 DEF TypeOK, JobState, Executing, Cancellable, FirstRun, cancelVars, txVars
  <2>3. RowsInv'
    BY <2>1 DEF TypeOK, RowsInv, Existence, WorkersRun, EventsTell, CancelsHold, Events, cancelVars
  <2>4. ASSUME NEW c \in Consumers PROVE TxInv(c)'
    <3>0. TxInv(c)
      OBVIOUS
    <3>1. EventLoaded(c)'
      BY <2>1, <3>0, EventShape DEF TypeOK, TxInv, EventLoaded, txVars
    <3>2. Listed(c)'
      BY <2>1, <3>0 DEF TypeOK, TxInv, Listed, txVars
    <3>3. Spawns(c)' /\ SpawnsOne(c)'
      BY <2>1, <3>0 DEF TypeOK, TxInv, Spawns, SpawnsOne, HasExecutingRun, txVars
    <3>4. Settles(c)'
      BY <2>1, <3>0 DEF TypeOK, TxInv, Settles, txVars, cancelVars
    <3>5. Succeeds(c)'
      BY <2>1, <3>0, EventShape DEF TypeOK, TxInv, EventLoaded, Succeeds, txVars
    <3> QED
      BY <3>1, <3>2, <3>3, <3>4, <3>5 DEF TxInv
  <2>5. LocksExclusive'
    BY <2>1 DEF LocksExclusive, txVars
  <2>6. OneExecutingRun'
    BY <2>1 DEF TypeOK, OneExecutingRun, FirstRun, Executing, Cancellable
  <2>7. TicksInOrder'
    BY <2>1 DEF TypeOK, TicksInOrder, FirstRun, Terminal, Ticks
  <2> QED
    BY <2>2, <2>3, <2>4, <2>5, <2>6, <2>7
<1>2. CASE CreateValidates(j) \/ CreateCommits(j)
  <2>1. /\ \/ jobState' = jobState
           \/ jobState' = [jobState EXCEPT ![j] = "active"] /\ j \in creating /\ creating' = creating \ {j}
        /\ \A x \in creating' : x \in creating \/ (x = j /\ jobState[j] = "absent" /\ Trigger[j] # NoJob)
        /\ creating' \subseteq Jobs
        /\ UNCHANGED <<runVars, cancelVars, txVars>>
    BY <1>2 DEF CreateValidates, CreateCommits, TypeOK
  <2>2. jobState[j] = "absent" /\ Trigger[j] # NoJob /\ j \notin Recurring
    BY <1>2 DEF CreateValidates, CreateCommits, RowsInv, Existence
  <2>3. TypeOK'
    BY <2>1 DEF TypeOK, JobState, runVars, cancelVars, txVars
  <2>4. RowsInv'
    BY <2>1, <2>2, SMTT(30) DEF TypeOK, RowsInv, Existence, WorkersRun, EventsTell, CancelsHold, Events,
                 runVars, cancelVars
  <2>5. ASSUME NEW c \in Consumers PROVE TxInv(c)'
    <3>0. TxInv(c)
      OBVIOUS
    <3>1. EventLoaded(c)'
      BY <2>1, <2>2, <3>0, EventShape DEF TypeOK, TxInv, EventLoaded, txVars, runVars
    <3>2. Listed(c)'
      BY <2>1, <2>2, <3>0 DEF TypeOK, TxInv, Listed, txVars
    <3>3. Spawns(c)' /\ SpawnsOne(c)'
      BY <2>1, <2>2, <3>0 DEF TypeOK, TxInv, Spawns, SpawnsOne, HasExecutingRun, txVars, runVars
    <3>4. Settles(c)'
      BY <2>1, <2>2, <3>0 DEF TypeOK, TxInv, Settles, txVars, cancelVars
    <3>5. Succeeds(c)'
      BY <2>1, <2>2, <3>0, EventShape DEF TypeOK, TxInv, EventLoaded, Succeeds, txVars, runVars
    <3> QED
      BY <3>1, <3>2, <3>3, <3>4, <3>5 DEF TxInv
  <2>6. LocksExclusive'
    BY <2>1 DEF LocksExclusive, txVars
  <2>7. OneExecutingRun'
    <3>1. \A x \in Jobs : x # j => jobState'[x] = jobState[x]
      BY <2>1 DEF TypeOK
    <3>2. \A k \in Ticks : runs[j][k] \notin Executing
      BY <2>2, Statuses DEF RowsInv, Existence
    <3>3. runs' = runs
      BY <2>1 DEF runVars
    <3> QED
      BY <3>1, <3>2, <3>3 DEF OneExecutingRun
  <2>8. TicksInOrder'
    <3>1. \A x \in Recurring : jobState'[x] = jobState[x]
      BY <2>1, <2>2 DEF TypeOK
    <3>2. UNCHANGED <<runs, pending>>
      BY <2>1 DEF runVars
    <3> QED
      BY <3>1, <3>2 DEF TicksInOrder
  <2> QED
    BY <2>3, <2>4, <2>5, <2>6, <2>7, <2>8
<1> QED
  BY <1>1, <1>2

----------------------------------------------------------------------------
(* Runs *)

\* What a step of a run does to the job rows: nothing, or it completes a job with
\* a schedule of its own whose row nobody has locked.
RunMoves(j, k, v) ==
  /\ runs' = [runs EXCEPT ![j][k] = v]
  /\ runs[j][k] # "none" /\ v \in Executing \union Terminal
  /\ \/ UNCHANGED jobState
     \/ /\ jobState' = [jobState EXCEPT ![j] = "completed"]
        /\ jobState[j] = "active" /\ j \notin RowLocked
  /\ UNCHANGED <<dropped, creating, cancelVars, txVars>>

\* Unless the job is cancelled, a run that moves was executing, and if it ends
\* its event is left.
RunKeeps(j, k, v) ==
  /\ jobState[j] = "cancelled" \/ runs[j][k] \in Executing
  /\ v \in Terminal => pending' = pending \union {<<j, k, v>>} \/ (v = runs[j][k] /\ pending' = pending)
  /\ v \notin Terminal => pending' = pending
  /\ \/ working' = working \ {<<j, k>>}
     \/ /\ v = "RUNNING" /\ working' = working \union {<<j, k>>}
     \/ /\ jobState[j] = "cancelled" \/ <<j, k>> \notin working
        /\ working' = working

\* Every step of a run is of this kind.
LEMMA RunShapes ==
  ASSUME IInv, NEW j \in Jobs, NEW k \in Ticks,
         \/ RunStarts(j, k) \/ RunRetries(j, k) \/ RunRecovered(j, k) \/ RunSwept(j, k)
         \/ \E s \in {"SUCCEEDED", "FAILED"} : RunEnds(j, k, s)
  PROVE  \E v \in Executing \union Terminal : RunMoves(j, k, v) /\ RunKeeps(j, k, v)
<1> USE DEF IInv, jobVars
<1>0. <<j, k>> \in working => runs[j][k] = "RUNNING" \/ (jobState[j] = "cancelled" /\ runs[j][k] # "none")
  BY DEF RowsInv, WorkersRun
<1>1. CASE RunStarts(j, k)
  <2>1. RunMoves(j, k, "RUNNING") /\ RunKeeps(j, k, "RUNNING")
    BY <1>1 DEF RunStarts, RunMoves, RunKeeps, Cancellable, Executing, Terminal
  <2> QED
    BY <2>1, Statuses
<1>2. CASE RunRetries(j, k)
  <2>1. RunMoves(j, k, "RETRYING") /\ RunKeeps(j, k, "RETRYING")
    BY <1>0, <1>2 DEF RunRetries, RunMoves, RunKeeps, Cancellable, Executing, Terminal
  <2> QED
    BY <2>1, Statuses
<1>3. CASE RunRecovered(j, k)
  <2> DEFINE v == IF runs[j][k] = "RUNNING" THEN "PENDING" ELSE runs[j][k]
  <2>1. runs[j][k] # "none" /\ v \in Executing \union Terminal
    BY <1>0, <1>3 DEF RunRecovered, TypeOK, Executing, Cancellable, Terminal
  <2>2. RunMoves(j, k, v) /\ RunKeeps(j, k, v)
    BY <1>0, <1>3, <2>1 DEF RunRecovered, RunMoves, RunKeeps, Cancellable, Executing, Terminal
  <2> QED
    BY <2>1, <2>2
<1>4. CASE RunSwept(j, k)
  <2>1. <<j, k>> \in working => jobState[j] = "cancelled"
    BY <1>0, <1>4 DEF RunSwept
  <2>2. RunMoves(j, k, "FAILED") /\ RunKeeps(j, k, "FAILED")
    BY <2>1, <1>4 DEF RunSwept, RunMoves, RunKeeps, Cancellable, Executing, Terminal
  <2> QED
    BY <2>2, Statuses
<1>5. ASSUME NEW s \in {"SUCCEEDED", "FAILED"}, RunEnds(j, k, s)
      PROVE  RunMoves(j, k, s) /\ RunKeeps(j, k, s)
  BY <1>0, <1>5 DEF RunEnds, RunMoves, RunKeeps, TypeOK, Cancellable, Executing, Terminal
<1> QED
  BY <1>1, <1>2, <1>3, <1>4, <1>5, Statuses

\* After such a step, a job is as it was or completed with its row unlocked.
JobsAfter ==
  \A x \in Jobs : \/ jobState'[x] = jobState[x]
                  \/ jobState[x] = "active" /\ jobState'[x] = "completed" /\ x \notin RowLocked

\* No run is inserted; unless its job is cancelled, a run that has ended stays as
\* it is and none comes to execute that did not.
RunsAfter ==
  \A x \in Jobs, y \in Ticks :
    /\ (runs'[x][y] = "none") <=> (runs[x][y] = "none")
    /\ jobState[x] = "cancelled" \/ (runs[x][y] \in Terminal => runs'[x][y] = runs[x][y])
    /\ jobState[x] = "cancelled" \/ (runs'[x][y] \in Executing => runs[x][y] \in Executing)

\* A run that ends leaves its event.
EventsAfter ==
  \A x \in Jobs, y \in Ticks :
    \/ jobState[x] = "cancelled"
    \/ runs'[x][y] \in Terminal /\ runs[x][y] \notin Terminal => <<x, y, runs'[x][y]>> \in pending'

\* What a step of run <<j, k>> does, whichever it is.
RunFacts(j, k) ==
  /\ JobsAfter /\ RunsAfter /\ EventsAfter
  /\ pending \subseteq pending'
  /\ pending' \subseteq pending \union {<<j, k, s>> : s \in {x \in Terminal : x = runs'[j][k]}}
  /\ runs[j][k] # "none"
  /\ \A x \in Jobs, y \in Ticks : <<x, y>> \in working' =>
       runs'[x][y] = "RUNNING" \/ (jobState[x] = "cancelled" /\ runs'[x][y] # "none")
  /\ working' \subseteq RunIds
  /\ runs' \in [Jobs -> [Ticks -> Executing \union Terminal \union {"none"}]]
  /\ UNCHANGED <<dropped, creating, cancelVars, txVars>>

\* A step of a run has these effects.
LEMMA RunEffects ==
  ASSUME IInv, NEW j \in Jobs, NEW k \in Ticks, NEW v \in Executing \union Terminal,
         RunMoves(j, k, v), RunKeeps(j, k, v)
  PROVE  RunFacts(j, k)
<1> USE DEF IInv
<1>1. \A x \in Jobs, y \in Ticks :
        runs'[x][y] = IF x = j /\ y = k THEN v ELSE runs[x][y]
  BY DEF RunMoves, TypeOK
<1>2. JobsAfter
  BY DEF RunMoves, TypeOK, JobsAfter
<1>3. /\ runs[j][k] # "none" /\ v # "none"
      /\ v \in Terminal <=> v \notin Executing
      /\ runs[j][k] \in Terminal => runs[j][k] \notin Executing
  BY Statuses DEF RunMoves
<1>4. RunsAfter
  BY <1>1, <1>3 DEF RunKeeps, RunsAfter
<1>5. EventsAfter
  BY <1>1, <1>3 DEF RunKeeps, EventsAfter
<1>6. /\ pending \subseteq pending'
      /\ pending' \subseteq pending \union {<<j, k, s>> : s \in {x \in Terminal : x = runs'[j][k]}}
  <2>1. runs'[j][k] = v
    BY <1>1
  <2>2. CASE v \in Terminal
    BY <2>1, <2>2 DEF RunKeeps
  <2>3. CASE v \notin Terminal
    BY <2>1, <2>3 DEF RunKeeps
  <2> QED
    BY <2>2, <2>3
<1>7. \A x \in Jobs, y \in Ticks : <<x, y>> \in working' =>
        runs'[x][y] = "RUNNING" \/ (jobState[x] = "cancelled" /\ runs'[x][y] # "none")
  <2> SUFFICES ASSUME NEW x \in Jobs, NEW y \in Ticks, <<x, y>> \in working'
               PROVE  runs'[x][y] = "RUNNING" \/ (jobState[x] = "cancelled" /\ runs'[x][y] # "none")
    OBVIOUS
  <2>1. CASE x = j /\ y = k
    BY <2>1, <1>1, <1>3 DEF RunKeeps
  <2>2. CASE ~(x = j /\ y = k)
    <3>1. <<x, y>> \in working
      BY <2>2 DEF RunKeeps
    <3> QED
      BY <3>1, <2>2, <1>1 DEF RowsInv, WorkersRun
  <2> QED
    BY <2>1, <2>2
<1>8. working' \subseteq RunIds
  BY DEF RunKeeps, TypeOK, RunIds
<1>9. runs' \in [Jobs -> [Ticks -> Executing \union Terminal \union {"none"}]]
  BY DEF RunMoves, TypeOK
<1> QED
  BY <1>2, <1>3, <1>4, <1>5, <1>6, <1>7, <1>8, <1>9 DEF RunFacts, RunMoves

\* A step of a run keeps the invariant.
LEMMA RunInv ==
  ASSUME IInv, NEW j \in Jobs, NEW k \in Ticks,
         \/ RunStarts(j, k) \/ RunRetries(j, k) \/ RunRecovered(j, k) \/ RunSwept(j, k)
         \/ \E s \in {"SUCCEEDED", "FAILED"} : RunEnds(j, k, s)
  PROVE  IInv'
<1> USE ContinuationAssumption DEF IInv
<1>1. RunFacts(j, k)
  BY RunShapes, RunEffects
<1>2. JobsAfter
  BY <1>1 DEF RunFacts
<1>3. RunsAfter
  BY <1>1 DEF RunFacts
<1>4. UNCHANGED <<dropped, creating, cancelVars, txVars>>
  BY <1>1 DEF RunFacts
<1>5. TypeOK'
  <2>1. jobState' \in [Jobs -> JobState]
    <3>1. PICK v \in Executing \union Terminal : RunMoves(j, k, v)
      BY RunShapes
    <3> QED
      BY <3>1 DEF RunMoves, TypeOK, JobState
  <2>2. pending' \subseteq Events
    BY <1>1 DEF RunFacts, TypeOK, Events
  <2> QED
    BY <1>1, <1>4, <2>1, <2>2 DEF RunFacts, TypeOK, cancelVars, txVars
<1>6. RowsInv'
  <2>1. Existence'
    <3>1. \A x \in Jobs : jobState'[x] = "absent" => \A y \in Ticks : runs'[x][y] = "none"
      BY <1>2, <1>3 DEF RowsInv, Existence, JobsAfter, RunsAfter
    <3>2. jobState[j] # "absent"
      BY <1>1 DEF RunFacts, RowsInv, Existence
    <3>3. \A e \in pending' : e \in pending \/ e[1] = j
      BY <1>1 DEF RunFacts
    <3>4. \A e \in pending' : jobState'[e[1]] # "absent"
      BY <1>2, <3>2, <3>3, EventShape DEF RowsInv, Existence, TypeOK, JobsAfter
    <3>5. \A x \in creating' : jobState'[x] = "absent" /\ Trigger[x] # NoJob
      BY <1>2, <1>4 DEF RowsInv, Existence, TypeOK, JobsAfter
    <3> QED
      BY <3>1, <3>4, <3>5 DEF Existence
  <2>2. WorkersRun'
    BY <1>1, <1>2 DEF RunFacts, WorkersRun, JobsAfter
  <2>3. EventsTell'
    <3> SUFFICES ASSUME NEW x \in Jobs, NEW y \in Ticks, NEW s \in Terminal, <<x, y, s>> \in pending'
                 PROVE  jobState'[x] = "cancelled" \/ runs'[x][y] = s
      BY DEF EventsTell
    <3>1. CASE <<x, y, s>> \in pending
      BY <3>1, <1>2, <1>3 DEF RowsInv, EventsTell, JobsAfter, RunsAfter
    <3>2. CASE <<x, y, s>> \notin pending
      BY <3>2, <1>1 DEF RunFacts
    <3> QED
      BY <3>1, <3>2
  <2>4. CancelsHold'
    BY <1>2, <1>3, <1>4 DEF RowsInv, CancelsHold, TypeOK, RowLocked, cancelVars, JobsAfter, RunsAfter
  <2> QED
    BY <2>1, <2>2, <2>3, <2>4 DEF RowsInv
<1>7. ASSUME NEW c \in Consumers PROVE TxInv(c)'
  <2>0. TxInv(c)
    OBVIOUS
  <2>1. EventLoaded(c)'
    BY <1>2, <1>3, <1>4, <2>0, EventShape DEF TxInv, EventLoaded, txVars, JobsAfter, RunsAfter
  <2>2. Listed(c)'
    BY <1>2, <1>4, <2>0 DEF TypeOK, TxInv, Listed, txVars, JobsAfter
  <2>3. Spawns(c)' /\ SpawnsOne(c)'
    BY <1>2, <1>3, <1>4, <2>0 DEF TxInv, Spawns, SpawnsOne, HasExecutingRun, txVars, JobsAfter, RunsAfter
  <2>4. Settles(c)'
    BY <1>2, <1>4, <2>0 DEF TypeOK, TxInv, Settles, RowLocked, txVars, cancelVars, JobsAfter
  <2>5. Succeeds(c)'
    <3> SUFFICES ASSUME cpc[c] \in {"listed", "checked"}, cEvent[c][1] \in Recurring,
                        jobState'[cEvent[c][1]] # "cancelled"
                 PROVE  \/ <<cEvent[c][1], cEvent[c][2] + 1>> \in cSpawn[c]
                        \/ runs'[cEvent[c][1]][cEvent[c][2] + 1] # "none"
      BY <1>4 DEF Succeeds, txVars
    <3>1. cEvent[c][1] \in Jobs /\ cEvent[c][2] + 1 \in Ticks
      BY <2>0, EventShape DEF TxInv, EventLoaded, Ticks
    <3> QED
      BY <3>1, <1>2, <1>3, <2>0 DEF TxInv, Succeeds, JobsAfter, RunsAfter
  <2> QED
    BY <2>1, <2>2, <2>3, <2>4, <2>5 DEF TxInv
<1>8. LocksExclusive'
  BY <1>4 DEF LocksExclusive, txVars
<1>9. OneExecutingRun'
  BY <1>2, <1>3 DEF OneExecutingRun, JobsAfter, RunsAfter
<1>10. TicksInOrder'
  <2> SUFFICES ASSUME NEW x \in Recurring, jobState'[x] \notin {"absent", "cancelled"}
               PROVE  /\ runs'[x][1] # "none"
                      /\ \A k1, k2 \in Ticks : k1 < k2 /\ runs'[x][k2] # "none" => runs'[x][k1] \in Terminal
                      /\ \A y \in Ticks : runs'[x][y] \in Terminal =>
                           \/ <<x, y, runs'[x][y]>> \in pending'
                           \/ y < MaxTicks /\ runs'[x][y + 1] # "none"
    BY DEF TicksInOrder
  <2>1. x \in Jobs /\ jobState[x] \notin {"absent", "cancelled"} /\ 1 \in Ticks
    BY <1>2 DEF Ticks, JobsAfter
  <2>2. /\ runs[x][1] # "none"
        /\ \A k1, k2 \in Ticks : k1 < k2 /\ runs[x][k2] # "none" => runs[x][k1] \in Terminal
        /\ \A y \in Ticks : runs[x][y] \in Terminal =>
             \/ <<x, y, runs[x][y]>> \in pending
             \/ y < MaxTicks /\ runs[x][y + 1] # "none"
    BY <2>1 DEF TicksInOrder
  <2>3. runs'[x][1] # "none"
    BY <2>1, <2>2, <1>3 DEF RunsAfter
  <2>4. \A k1, k2 \in Ticks : k1 < k2 /\ runs'[x][k2] # "none" => runs'[x][k1] \in Terminal
    BY <2>1, <2>2, <1>3 DEF RunsAfter
  <2>5. ASSUME NEW y \in Ticks, runs'[x][y] \in Terminal
        PROVE  <<x, y, runs'[x][y]>> \in pending' \/ (y < MaxTicks /\ runs'[x][y + 1] # "none")
    <3>1. y < MaxTicks => y + 1 \in Ticks
      BY DEF Ticks
    <3>2. CASE runs[x][y] \in Terminal
      <4>1. runs'[x][y] = runs[x][y]
        BY <3>2, <2>1, <1>3 DEF RunsAfter
      <4>2. pending \subseteq pending'
        BY <1>1 DEF RunFacts
      <4>3. y < MaxTicks /\ runs[x][y + 1] # "none" => runs'[x][y + 1] # "none"
        BY <3>1, <2>1, <1>3 DEF RunsAfter
      <4> QED
        BY <4>1, <4>2, <4>3, <3>2, <2>2
    <3>3. CASE runs[x][y] \notin Terminal
      <4>1. EventsAfter
        BY <1>1 DEF RunFacts
      <4> QED
        BY <4>1, <3>3, <2>1, <2>5 DEF EventsAfter
    <3> QED
      BY <3>2, <3>3
  <2> QED
    BY <2>3, <2>4, <2>5
<1> QED
  BY <1>5, <1>6, <1>7, <1>8, <1>9, <1>10

----------------------------------------------------------------------------
(* The consumer *)

\* A transaction that does not move keeps its part of the invariant as long as
\* the rows do not move either.
LEMMA OthersKeep ==
  ASSUME NEW x \in Consumers, TxInv(x),
         UNCHANGED <<cpc[x], cEvent[x], cSeen[x], cDowns[x], cSpawn[x], cDrop[x], cSettle[x], cLocked[x]>>,
         UNCHANGED <<jobState, runs, cancelling>>
  PROVE  TxInv(x)'
<1>1. EventLoaded(x)'
  BY DEF TxInv, EventLoaded
<1>2. Listed(x)'
  BY DEF TxInv, Listed
<1>3. Spawns(x)' /\ SpawnsOne(x)'
  BY DEF TxInv, Spawns, SpawnsOne, HasExecutingRun
<1>4. Settles(x)' /\ Succeeds(x)'
  BY DEF TxInv, Settles, Succeeds
<1> QED
  BY <1>1, <1>2, <1>3, <1>4 DEF TxInv

\* A step of a transaction that does not commit leaves the rows alone: what is
\* left to show is what it holds itself.
LEMMA RowsKeep ==
  ASSUME IInv, NEW c \in Consumers,
         UNCHANGED <<jobVars, runVars, cancelVars>>,
         \A x \in Consumers \ {c} :
           UNCHANGED <<cpc[x], cEvent[x], cSeen[x], cDowns[x], cSpawn[x], cDrop[x], cSettle[x], cLocked[x]>>,
         TypeOK', TxInv(c)', LocksExclusive'
  PROVE  IInv'
<1> USE DEF IInv, jobVars, runVars, cancelVars
<1>1. RowsInv'
  BY DEF RowsInv, Existence, WorkersRun, EventsTell, CancelsHold
<1>2. ASSUME NEW x \in Consumers PROVE TxInv(x)'
  BY OthersKeep
<1>3. OneExecutingRun'
  BY DEF OneExecutingRun
<1>4. TicksInOrder'
  BY DEF TicksInOrder
<1> QED
  BY <1>1, <1>2, <1>3, <1>4

\* Loading an event.
LEMMA LoadsInv ==
  ASSUME IInv, NEW c \in Consumers, NEW e \in pending, ConsumerLoads(c, e)
  PROVE  IInv'
<1> USE ContinuationAssumption DEF IInv, ConsumerLoads
<1>1. /\ e \in Events /\ e[1] \in Jobs /\ e[2] \in Ticks /\ e[3] \in Terminal
      /\ <<e[1], e[2], e[3]>> \in pending
  BY EventShape DEF TypeOK
<1>2. TypeOK'
  BY <1>1 DEF TypeOK, JobState, jobVars, runVars, cancelVars
<1>3. /\ cpc'[c] = "loaded" /\ cEvent'[c] = e /\ cSeen'[c] = jobState[e[1]]
      /\ UNCHANGED <<cDowns, cSpawn, cDrop, cSettle, cLocked>>
      /\ UNCHANGED <<jobState, runs, cancelling>>
      /\ cpc[c] = "idle"
  BY DEF TypeOK, jobVars, runVars, cancelVars
<1>4. TxInv(c)'
  <2>0. cDowns[c] = {} /\ cSpawn[c] = {} /\ cLocked[c] = {} /\ cSettle[c] = {} /\ cDrop[c] = {}
    BY <1>3 DEF TxInv, Listed
  <2>1. EventLoaded(c)'
    BY <1>1, <1>3 DEF EventLoaded, RowsInv, Existence, EventsTell
  <2>2. Listed(c)' /\ Spawns(c)' /\ SpawnsOne(c)' /\ Settles(c)' /\ Succeeds(c)'
    BY <1>3, <2>0 DEF Listed, Spawns, SpawnsOne, Settles, Succeeds
  <2> QED
    BY <2>1, <2>2 DEF TxInv
<1>5. LocksExclusive'
  BY <1>3 DEF LocksExclusive
<1>6. \A x \in Consumers \ {c} :
        UNCHANGED <<cpc[x], cEvent[x], cSeen[x], cDowns[x], cSpawn[x], cDrop[x], cSettle[x], cLocked[x]>>
  BY DEF TypeOK
<1> QED
  BY <1>2, <1>4, <1>5, <1>6, RowsKeep

\* A transaction that holds nothing after the step.
LEMMA AbortsInv ==
  ASSUME IInv, NEW c \in Consumers, ConsumerAborts(c)
  PROVE  IInv'
<1> USE ContinuationAssumption DEF IInv, ConsumerAborts, EndTransaction
<1>1. /\ cpc'[c] = "idle" /\ cDowns'[c] = {} /\ cSpawn'[c] = {} /\ cLocked'[c] = {}
      /\ cSettle'[c] = {} /\ cDrop'[c] = {}
  BY DEF TypeOK
<1>2. TypeOK'
  BY DEF TypeOK, JobState, jobVars, runVars, cancelVars
<1>3. TxInv(c)'
  BY <1>1 DEF TxInv, EventLoaded, Listed, Spawns, SpawnsOne, Settles, Succeeds
<1>4. \A x \in Consumers \ {c} :
        UNCHANGED <<cpc[x], cEvent[x], cSeen[x], cDowns[x], cSpawn[x], cDrop[x], cSettle[x], cLocked[x]>>
  BY DEF TypeOK
<1>5. LocksExclusive'
  BY <1>1, <1>4 DEF LocksExclusive
<1> QED
  BY <1>2, <1>3, <1>4, <1>5, RowsKeep

\* The next tick of a recurring job is inserted, or is there already.
LEMMA SuccessorFacts ==
  ASSUME IInv, NEW c \in Consumers, cpc[c] = "loaded"
  PROVE  LET j == cEvent[c][1]
             next == Successor(j, cEvent[c][2], cSeen[c]) IN
         /\ next \subseteq {<<j, cEvent[c][2] + 1>>} /\ next \subseteq RunIds
         /\ next # {} => /\ j \in Recurring /\ runs[j][cEvent[c][2] + 1] = "none"
                         /\ ~HasExecutingRun(j)
         /\ j \in Recurring /\ jobState[j] # "cancelled" =>
              next # {} \/ runs[j][cEvent[c][2] + 1] # "none"
<1> USE ContinuationAssumption DEF IInv
<1> DEFINE j == cEvent[c][1]
           k == cEvent[c][2]
           next == Successor(j, k, cSeen[c])
<1>1. /\ j \in Jobs /\ k \in Ticks /\ cEvent[c][3] \in Terminal
      /\ jobState[j] # "absent"
      /\ j \in Recurring => k < MaxTicks
      /\ jobState[j] = "cancelled" \/ runs[j][k] = cEvent[c][3]
      /\ cSeen[c] = "cancelled" => jobState[j] = "cancelled"
  BY EventShape DEF TxInv, EventLoaded
<1>2. j \in Recurring => k + 1 \in Ticks
  BY <1>1 DEF Ticks
<1>3. /\ next \subseteq {<<j, k + 1>>}
      /\ next # {} => j \in Recurring /\ runs[j][k + 1] = "none" /\ ~HasExecutingRun(j)
  BY DEF Successor
<1>4. next \subseteq RunIds
  BY <1>1, <1>2, <1>3 DEF RunIds
<1>5. ASSUME j \in Recurring, jobState[j] # "cancelled", runs[j][k + 1] = "none"
      PROVE  next # {}
  <2>1. ~HasExecutingRun(j)
    <3> SUFFICES ASSUME NEW y \in Ticks, runs[j][y] \in Executing PROVE FALSE
      BY DEF HasExecutingRun
    <3>1. \A k1, k2 \in Ticks : k1 < k2 /\ runs[j][k2] # "none" => runs[j][k1] \in Terminal
      BY <1>1, <1>5 DEF TicksInOrder
    <3>2. runs[j][k] \in Terminal /\ runs[j][k] # "none" /\ runs[j][y] # "none" /\ runs[j][y] \notin Terminal
      BY <1>1, <1>5, Statuses
    <3>3. y # k /\ y # k + 1
      BY <3>2, <1>5
    <3>4. ~(y < k)
      BY <3>1, <3>2, <1>1
    <3>5. ~(k + 1 < y)
      BY <3>1, <3>2, <1>2, <1>5, Statuses
    <3> QED
      BY <3>3, <3>4, <3>5, <1>1 DEF Ticks
  <2> QED
    BY <2>1, <1>1, <1>5 DEF Successor
<1> QED
  BY <1>3, <1>4, <1>5

\* Inserting the successor and listing the jobs downstream.
LEMMA ListsInv ==
  ASSUME IInv, NEW c \in Consumers, ConsumerLists(c)
  PROVE  IInv'
<1> USE ContinuationAssumption DEF IInv
<1> DEFINE j == cEvent[c][1]
           k == cEvent[c][2]
           next == Successor(j, k, cSeen[c])
           downs == IF cSeen[c] = "cancelled" THEN {}
                    ELSE {d \in Downstream({j}) : jobState[d] = "active"}
<1>1. /\ cpc[c] = "loaded" /\ cpc' = [cpc EXCEPT ![c] = "listed"]
      /\ j \in Recurring => j \notin LockedByOthers(c)
      /\ cSpawn' = [cSpawn EXCEPT ![c] = next]
      /\ cLocked' = [cLocked EXCEPT ![c] = {r[1] : r \in next}]
      /\ cDowns' = [cDowns EXCEPT ![c] = downs]
      /\ UNCHANGED <<jobVars, runVars, cancelVars, cEvent, cSeen, cDrop, cSettle, aborts>>
  BY DEF ConsumerLists
<1>2. /\ next \subseteq {<<j, k + 1>>} /\ next \subseteq RunIds
      /\ next # {} => j \in Recurring /\ runs[j][k + 1] = "none" /\ ~HasExecutingRun(j)
      /\ j \in Recurring /\ jobState[j] # "cancelled" => next # {} \/ runs[j][k + 1] # "none"
  BY <1>1, SuccessorFacts
<1>3. /\ j \in Jobs /\ jobState[j] # "absent"
  BY <1>1, EventShape DEF TxInv, EventLoaded
<1>4. /\ downs \subseteq Jobs
      /\ \A d \in downs : jobState[d] # "absent" /\ Trigger[d] = j
  BY DEF Downstream
<1>5. {r[1] : r \in next} \subseteq {j} /\ (next # {} => {r[1] : r \in next} = {j})
  BY <1>2
<1> HIDE DEF next, downs
<1>6. TypeOK'
  <2>1. /\ cSpawn' \in [Consumers -> SUBSET RunIds]
        /\ cLocked' \in [Consumers -> SUBSET Jobs]
        /\ cDowns' \in [Consumers -> SUBSET Jobs]
        /\ cpc' \in [Consumers -> {"idle", "loaded", "listed", "checked"}]
    BY <1>1, <1>2, <1>3, <1>4, <1>5 DEF TypeOK
  <2> QED
    BY <1>1, <2>1 DEF TypeOK, jobVars, runVars, cancelVars
<1>7. /\ cpc'[c] = "listed" /\ cSpawn'[c] = next /\ cLocked'[c] = {r[1] : r \in next}
      /\ cDowns'[c] = downs
      /\ UNCHANGED <<jobState, runs, cancelling, cEvent, cSeen, cDrop, cSettle>>
  BY <1>1 DEF TypeOK, jobVars, runVars, cancelVars
<1>8. TxInv(c)'
  <2>1. EventLoaded(c)'
    BY <1>1, <1>7 DEF TxInv, EventLoaded
  <2>2. Listed(c)'
    BY <1>1, <1>4, <1>7 DEF TxInv, Listed
  <2>3. Spawns(c)' /\ SpawnsOne(c)'
    BY <1>2, <1>3, <1>5, <1>7 DEF Spawns, SpawnsOne, HasExecutingRun
  <2>4. Settles(c)'
    BY <1>7 DEF TxInv, Settles
  <2>5. Succeeds(c)'
    BY <1>2, <1>7 DEF Succeeds
  <2> QED
    BY <2>1, <2>2, <2>3, <2>4, <2>5 DEF TxInv
<1>9. \A x \in Consumers \ {c} :
        UNCHANGED <<cpc[x], cEvent[x], cSeen[x], cDowns[x], cSpawn[x], cDrop[x], cSettle[x], cLocked[x]>>
  BY <1>1 DEF TypeOK
<1>10. LocksExclusive'
  <2>1. \A x \in Consumers \ {c} : cLocked'[c] \intersect cLocked[x] = {}
    BY <1>1, <1>2, <1>5, <1>7 DEF LockedByOthers
  <2> QED
    BY <1>7, <1>9, <2>1 DEF LocksExclusive
<1> QED
  BY <1>1, <1>6, <1>8, <1>9, <1>10, RowsKeep

\* The triggered runs and the jobs to settle.
LEMMA ChecksInv ==
  ASSUME IInv, NEW c \in Consumers, ConsumerChecks(c)
  PROVE  IInv'
<1> USE ContinuationAssumption DEF IInv
<1> DEFINE j == cEvent[c][1]
           k == cEvent[c][2]
           s == cEvent[c][3]
           fired == Triggered(cDowns[c], k, s)
           spawn == cSpawn[c] \union fired
           busy == {x \in Jobs : HasExecutingRun(x)} \union {r[1] : r \in spawn}
           roots == cDowns[c] \union {j}
           settled == SettleCheck(roots, jobState, busy)
           locks == cDowns[c] \union Visited(roots, jobState, settled)
           slow == SlowConsumers(cDowns[c], k, s)
<1>1. /\ cpc[c] = "listed"
      /\ locks \intersect LockedByOthers(c) = {}
      /\ settled \intersect RowLocked = {}
      /\ cpc' = [cpc EXCEPT ![c] = "checked"]
      /\ cSpawn' = [cSpawn EXCEPT ![c] = spawn]
      /\ cDrop' = [cDrop EXCEPT ![c] = slow]
      /\ cSettle' = [cSettle EXCEPT ![c] = settled]
      /\ cLocked' = [cLocked EXCEPT ![c] = @ \union locks]
      /\ UNCHANGED <<jobVars, runVars, cancelVars, cEvent, cSeen, cDowns, aborts>>
  BY DEF ConsumerChecks, LocksFree
<1>2. j \in Jobs /\ k \in Ticks
  BY <1>1, EventShape DEF TxInv, EventLoaded
<1>3. /\ cDowns[c] \subseteq Jobs
      /\ \A d \in cDowns[c] : jobState[d] # "absent" /\ Trigger[d] = j
  BY DEF TypeOK, TxInv, Listed
<1>4. /\ fired \subseteq RunIds
      /\ \A x \in Jobs, y \in Ticks : <<x, y>> \in fired =>
           x \in cDowns[c] /\ y = k /\ runs[x][y] = "none" /\ ~HasExecutingRun(x)
  BY <1>2, <1>3 DEF Triggered, RunIds
<1>5. slow \subseteq RunIds
  BY <1>2, <1>3 DEF SlowConsumers, RunIds
<1>6. settled \subseteq Jobs /\ \A x \in settled : jobState[x] = "active"
  BY DEF SettleCheck
<1>7. locks \subseteq Jobs /\ cDowns[c] \subseteq locks
  BY <1>2, <1>3 DEF Visited, Downstream
<1> HIDE DEF fired, settled, locks, slow
<1>8. TypeOK'
  <2>1. /\ cSpawn' \in [Consumers -> SUBSET RunIds]
        /\ cDrop' \in [Consumers -> SUBSET RunIds]
        /\ cSettle' \in [Consumers -> SUBSET Jobs]
        /\ cLocked' \in [Consumers -> SUBSET Jobs]
        /\ cpc' \in [Consumers -> {"idle", "loaded", "listed", "checked"}]
    BY <1>1, <1>4, <1>5, <1>6, <1>7 DEF TypeOK
  <2> QED
    BY <1>1, <2>1 DEF TypeOK, jobVars, runVars, cancelVars
<1>9. /\ cpc'[c] = "checked" /\ cSpawn'[c] = cSpawn[c] \union fired /\ cSettle'[c] = settled
      /\ cLocked'[c] = cLocked[c] \union locks
      /\ UNCHANGED <<jobState, runs, cancelling, cEvent, cSeen, cDowns>>
  BY <1>1 DEF TypeOK, jobVars, runVars, cancelVars
<1>10. TxInv(c)'
  <2>1. EventLoaded(c)'
    BY <1>1, <1>9 DEF TxInv, EventLoaded
  <2>2. Listed(c)'
    BY <1>9 DEF TxInv, Listed
  <2>3. Spawns(c)' /\ SpawnsOne(c)'
    <3> SUFFICES ASSUME NEW x \in Jobs, NEW y \in Ticks, <<x, y>> \in cSpawn'[c]
                 PROVE  /\ x \in cLocked'[c] /\ jobState[x] # "absent" /\ runs[x][y] = "none"
                        /\ jobState[x] = "cancelled" \/ ~HasExecutingRun(x)
                        /\ \/ x = j /\ y = k + 1 /\ x \in Recurring
                           \/ Trigger[x] = j /\ y = k
      BY <1>9 DEF Spawns, SpawnsOne, HasExecutingRun
    <3>1. CASE <<x, y>> \in cSpawn[c]
      BY <3>1, <1>1, <1>9 DEF TxInv, Spawns, SpawnsOne
    <3>2. CASE <<x, y>> \in fired
      BY <3>2, <1>3, <1>4, <1>7, <1>9
    <3> QED
      BY <3>1, <3>2, <1>9
  <2>4. Settles(c)'
    BY <1>1, <1>6, <1>9 DEF Settles, RowLocked
  <2>5. Succeeds(c)'
    BY <1>1, <1>9 DEF TxInv, Succeeds
  <2> QED
    BY <2>1, <2>2, <2>3, <2>4, <2>5 DEF TxInv
<1>11. \A x \in Consumers \ {c} :
        UNCHANGED <<cpc[x], cEvent[x], cSeen[x], cDowns[x], cSpawn[x], cDrop[x], cSettle[x], cLocked[x]>>
  BY <1>1 DEF TypeOK
<1>12. LocksExclusive'
  <2>1. \A x \in Consumers \ {c} : cLocked'[c] \intersect cLocked[x] = {}
    BY <1>1, <1>9 DEF LockedByOthers, LocksExclusive
  <2>2. \A x \in Consumers \ {c} : cSettle'[c] \intersect cSettle[x] = {}
    BY <1>1, <1>9 DEF RowLocked
  <2> QED
    BY <1>11, <2>1, <2>2 DEF LocksExclusive
<1> QED
  BY <1>1, <1>8, <1>10, <1>11, <1>12, RowsKeep

----------------------------------------------------------------------------
(* The consumer's commit *)

\* After a commit, a job is as it was or has been settled, with its row locked.
SettledAfter(c) ==
  \A x \in Jobs : \/ jobState'[x] = jobState[x]
                  \/ /\ x \in cSettle[c] /\ x \notin cancelling
                     /\ jobState[x] = "active" /\ jobState'[x] = "completed"

\* A run is as it was or has been inserted, with its job locked.
InsertedAfter(c) ==
  \A x \in Jobs, y \in Ticks :
    /\ <<x, y>> \notin cSpawn[c] => runs'[x][y] = runs[x][y]
    /\ <<x, y>> \in cSpawn[c] =>
         /\ runs[x][y] = "none" /\ runs'[x][y] = "PENDING"
         /\ x \in cLocked[c] /\ jobState[x] # "absent"
         /\ jobState[x] = "cancelled" \/ ~HasExecutingRun(x)

\* No run that is there changes.
KeptAfter == \A x \in Jobs, y \in Ticks : runs[x][y] # "none" => runs'[x][y] = runs[x][y]

\* The rows after a commit.
LEMMA CommitEffects ==
  ASSUME IInv, NEW c \in Consumers, ConsumerCommits(c)
  PROVE  /\ SettledAfter(c) /\ InsertedAfter(c) /\ KeptAfter
         /\ pending' = pending \ {cEvent[c]}
<1> USE DEF IInv, ConsumerCommits
<1>1. SettledAfter(c)
  BY DEF TypeOK, TxInv, Settles, SettledAfter
<1>2. InsertedAfter(c)
  <2> SUFFICES ASSUME NEW x \in Jobs, NEW y \in Ticks
               PROVE  /\ <<x, y>> \notin cSpawn[c] => runs'[x][y] = runs[x][y]
                      /\ <<x, y>> \in cSpawn[c] =>
                           /\ runs[x][y] = "none" /\ runs'[x][y] = "PENDING"
                           /\ x \in cLocked[c] /\ jobState[x] # "absent"
                           /\ jobState[x] = "cancelled" \/ ~HasExecutingRun(x)
    BY DEF InsertedAfter
  <2>1. runs'[x][y] = IF <<x, y>> \in cSpawn[c] THEN "PENDING" ELSE runs[x][y]
    OBVIOUS
  <2>2. <<x, y>> \in cSpawn[c] =>
          /\ runs[x][y] = "none" /\ x \in cLocked[c] /\ jobState[x] # "absent"
          /\ jobState[x] = "cancelled" \/ ~HasExecutingRun(x)
    BY DEF TxInv, Spawns
  <2> QED
    BY <2>1, <2>2
<1>3. KeptAfter
  BY <1>2 DEF InsertedAfter, KeptAfter
<1> QED
  BY <1>1, <1>2, <1>3

\* A commit keeps the rows consistent.
LEMMA CommitRows ==
  ASSUME IInv, NEW c \in Consumers, ConsumerCommits(c)
  PROVE  TypeOK' /\ RowsInv'
<1> USE ContinuationAssumption DEF IInv
<1>0. /\ SettledAfter(c) /\ InsertedAfter(c) /\ KeptAfter
      /\ pending' = pending \ {cEvent[c]}
  BY CommitEffects
<1>1. UNCHANGED <<working, creating, cancelling, flips>>
  BY DEF ConsumerCommits, cancelVars
<1>2. TypeOK'
  <2>1. jobState' \in [Jobs -> JobState]
    BY DEF ConsumerCommits, TypeOK, JobState
  <2>2. runs' \in [Jobs -> [Ticks -> Executing \union Terminal \union {"none"}]]
    BY Statuses DEF ConsumerCommits, TypeOK
  <2>3. dropped' \subseteq RunIds /\ pending' \subseteq Events
    BY DEF ConsumerCommits, TypeOK
  <2>4. /\ cpc' \in [Consumers -> {"idle", "loaded", "listed", "checked"}]
        /\ cEvent' \in [Consumers -> Events \union {NoEvent}]
        /\ cSeen' \in [Consumers -> JobState]
        /\ cDowns' \in [Consumers -> SUBSET Jobs]
        /\ cSpawn' \in [Consumers -> SUBSET RunIds]
        /\ cDrop' \in [Consumers -> SUBSET RunIds]
        /\ cSettle' \in [Consumers -> SUBSET Jobs]
        /\ cLocked' \in [Consumers -> SUBSET Jobs]
    BY DEF ConsumerCommits, EndTransaction, TypeOK, JobState
  <2> QED
    BY <1>1, <2>1, <2>2, <2>3, <2>4 DEF ConsumerCommits, TypeOK
<1>3. Existence'
  <2>1. \A x \in Jobs : jobState'[x] = "absent" => \A y \in Ticks : runs'[x][y] = "none"
    <3> SUFFICES ASSUME NEW x \in Jobs, jobState'[x] = "absent", NEW y \in Ticks
                 PROVE  runs'[x][y] = "none"
      OBVIOUS
    <3>1. jobState[x] = "absent"
      BY <1>0 DEF SettledAfter
    <3>2. <<x, y>> \notin cSpawn[c]
      BY <3>1, <1>0 DEF InsertedAfter
    <3> QED
      BY <3>1, <3>2, <1>0 DEF InsertedAfter, RowsInv, Existence
  <2>2. \A e \in pending' : jobState'[e[1]] # "absent"
    <3>1. \A e \in pending' : e[1] \in Jobs /\ jobState[e[1]] # "absent"
      BY <1>0, EventShape DEF RowsInv, Existence, TypeOK
    <3> QED
      BY <3>1, <1>0 DEF SettledAfter
  <2>3. \A x \in creating' : jobState'[x] = "absent" /\ Trigger[x] # NoJob
    BY <1>0, <1>1 DEF SettledAfter, RowsInv, Existence, TypeOK
  <2> QED
    BY <2>1, <2>2, <2>3 DEF Existence
<1>4. WorkersRun'
  BY <1>0, <1>1 DEF SettledAfter, KeptAfter, RowsInv, WorkersRun
<1>5. EventsTell'
  BY <1>0, Statuses DEF SettledAfter, KeptAfter, RowsInv, EventsTell
<1>6. CancelsHold'
  <2>1. \A x \in cancelling' : jobState'[x] = "active"
    BY <1>0, <1>1 DEF SettledAfter, RowsInv, CancelsHold, TypeOK
  <2> QED
    BY <2>1, <1>0, <1>1 DEF KeptAfter, RowsInv, CancelsHold
<1> QED
  BY <1>2, <1>3, <1>4, <1>5, <1>6 DEF RowsInv

\* A commit does not disturb another open transaction: their locks differ.
LEMMA CommitOthers ==
  ASSUME IInv, NEW c \in Consumers, ConsumerCommits(c), NEW x \in Consumers
  PROVE  TxInv(x)'
<1> USE ContinuationAssumption DEF IInv
<1>0. SettledAfter(c) /\ InsertedAfter(c) /\ KeptAfter /\ UNCHANGED cancelling
  BY CommitEffects DEF ConsumerCommits, cancelVars
<1>1. CASE x = c
  <2>1. /\ cpc'[c] = "idle" /\ cDowns'[c] = {} /\ cSpawn'[c] = {} /\ cLocked'[c] = {}
        /\ cSettle'[c] = {} /\ cDrop'[c] = {}
    BY DEF TypeOK, ConsumerCommits, EndTransaction
  <2> QED
    BY <1>1, <2>1 DEF TxInv, EventLoaded, Listed, Spawns, SpawnsOne, Settles, Succeeds
<1>2. CASE x # c
  <2>1. UNCHANGED <<cpc[x], cEvent[x], cSeen[x], cDowns[x], cSpawn[x], cDrop[x], cSettle[x], cLocked[x]>>
    BY <1>2 DEF ConsumerCommits, EndTransaction, TypeOK
  <2>2. cLocked[c] \intersect cLocked[x] = {} /\ cSettle[c] \intersect cSettle[x] = {}
    BY <1>2 DEF LocksExclusive
  <2>3. cpc[x] # "idle" => cEvent[x][1] \in Jobs /\ cEvent[x][2] \in Ticks /\ cEvent[x][3] \in Terminal
    BY EventShape DEF TxInv, EventLoaded
  <2>4. EventLoaded(x)'
    BY <1>0, <2>1, <2>3, Statuses DEF SettledAfter, KeptAfter, TxInv, EventLoaded
  <2>5. Listed(x)'
    BY <1>0, <2>1 DEF SettledAfter, TypeOK, TxInv, Listed
  <2>6. Spawns(x)' /\ SpawnsOne(x)'
    <3> SUFFICES ASSUME NEW i \in Jobs, NEW y \in Ticks, <<i, y>> \in cSpawn[x]
                 PROVE  /\ jobState'[i] # "absent"
                        /\ \A k \in Ticks : runs'[i][k] = runs[i][k]
                        /\ jobState[i] = "cancelled" => jobState'[i] = "cancelled"
      BY <2>1 DEF TxInv, Spawns, SpawnsOne, HasExecutingRun
    <3>1. i \notin cLocked[c] /\ jobState[i] # "absent"
      BY <2>2 DEF TxInv, Spawns
    <3> QED
      BY <3>1, <1>0 DEF SettledAfter, InsertedAfter
  <2>7. Settles(x)'
    BY <1>0, <2>1, <2>2 DEF SettledAfter, TypeOK, TxInv, Settles
  <2>8. Succeeds(x)'
    <3> SUFFICES ASSUME cpc[x] \in {"listed", "checked"}, cEvent[x][1] \in Recurring,
                        jobState'[cEvent[x][1]] # "cancelled"
                 PROVE  \/ <<cEvent[x][1], cEvent[x][2] + 1>> \in cSpawn[x]
                        \/ runs'[cEvent[x][1]][cEvent[x][2] + 1] # "none"
      BY <2>1 DEF Succeeds
    <3>1. cEvent[x][1] \in Jobs /\ cEvent[x][2] + 1 \in Ticks
      BY <2>3 DEF TxInv, EventLoaded, Ticks
    <3> QED
      BY <3>1, <1>0 DEF SettledAfter, KeptAfter, TxInv, Succeeds
  <2> QED
    BY <2>4, <2>5, <2>6, <2>7, <2>8 DEF TxInv
<1> QED
  BY <1>1, <1>2

\* A commit adds at most one run of a job, and only where none was executing.
LEMMA CommitOneRun ==
  ASSUME IInv, NEW c \in Consumers, ConsumerCommits(c)
  PROVE  OneExecutingRun'
<1> USE ContinuationAssumption DEF IInv
<1>0. SettledAfter(c) /\ InsertedAfter(c)
  BY CommitEffects
<1> SUFFICES ASSUME NEW x \in Jobs, jobState'[x] # "cancelled", NEW k1 \in Ticks, NEW k2 \in Ticks,
                    runs'[x][k1] \in Executing, runs'[x][k2] \in Executing
             PROVE  k1 = k2
  BY DEF OneExecutingRun
<1>1. CASE \E y \in Ticks : <<x, y>> \in cSpawn[c]
  <2>1. ~HasExecutingRun(x)
    BY <1>0, <1>1 DEF SettledAfter, InsertedAfter
  <2>2. <<x, k1>> \in cSpawn[c] /\ <<x, k2>> \in cSpawn[c]
    BY <1>0, <2>1 DEF InsertedAfter, HasExecutingRun
  <2>3. cEvent[c][1] \in Jobs
    BY EventShape DEF TxInv, EventLoaded, ConsumerCommits
  <2> QED
    BY <2>2, <2>3 DEF TxInv, SpawnsOne
<1>2. CASE \A y \in Ticks : <<x, y>> \notin cSpawn[c]
  <2>1. \A y \in Ticks : runs'[x][y] = runs[x][y]
    BY <1>0, <1>2 DEF InsertedAfter
  <2>2. jobState[x] # "cancelled"
    BY <1>0 DEF SettledAfter
  <2> QED
    BY <2>1, <2>2 DEF OneExecutingRun
<1> QED
  BY <1>1, <1>2

\* A commit continues the recurrence: the event it takes away has its successor.
LEMMA CommitTicks ==
  ASSUME IInv, NEW c \in Consumers, ConsumerCommits(c)
  PROVE  TicksInOrder'
<1> USE ContinuationAssumption DEF IInv
<1> DEFINE e1 == cEvent[c][1]
           e2 == cEvent[c][2]
<1>0. /\ SettledAfter(c) /\ InsertedAfter(c) /\ KeptAfter
      /\ pending' = pending \ {cEvent[c]}
  BY CommitEffects
<1>1. /\ e1 \in Jobs /\ e2 \in Ticks /\ cEvent[c][3] \in Terminal
      /\ e1 \in Recurring => e2 < MaxTicks /\ e2 + 1 \in Ticks
      /\ jobState[e1] = "cancelled" \/ runs[e1][e2] = cEvent[c][3]
  BY EventShape DEF TxInv, EventLoaded, ConsumerCommits, Ticks
<1> SUFFICES ASSUME NEW x \in Recurring, jobState'[x] \notin {"absent", "cancelled"}
             PROVE  /\ runs'[x][1] # "none"
                    /\ \A k1, k2 \in Ticks : k1 < k2 /\ runs'[x][k2] # "none" => runs'[x][k1] \in Terminal
                    /\ \A y \in Ticks : runs'[x][y] \in Terminal =>
                         \/ <<x, y, runs'[x][y]>> \in pending'
                         \/ y < MaxTicks /\ runs'[x][y + 1] # "none"
  BY DEF TicksInOrder
<1>2. x \in Jobs /\ jobState[x] \notin {"absent", "cancelled"} /\ 1 \in Ticks
  BY <1>0 DEF SettledAfter, Ticks
<1>3. /\ runs[x][1] # "none"
      /\ \A k1, k2 \in Ticks : k1 < k2 /\ runs[x][k2] # "none" => runs[x][k1] \in Terminal
      /\ \A y \in Ticks : runs[x][y] \in Terminal =>
           \/ <<x, y, runs[x][y]>> \in pending
           \/ y < MaxTicks /\ runs[x][y + 1] # "none"
  BY <1>2 DEF TicksInOrder
<1>4. \A y \in Ticks : <<x, y>> \in cSpawn[c] => x = e1 /\ y = e2 + 1 /\ runs[x][y] = "none"
  <2>1. Trigger[x] # e1
    BY <1>1
  <2> QED
    BY <2>1, <1>0, <1>2 DEF InsertedAfter, TxInv, SpawnsOne
<1>5. \A y \in Ticks : runs[x][y] # "none" => runs'[x][y] = runs[x][y]
  BY <1>0, <1>2 DEF KeptAfter
<1>6. ASSUME NEW k1 \in Ticks, NEW k2 \in Ticks, k1 < k2, runs'[x][k2] # "none"
      PROVE  runs'[x][k1] \in Terminal
  <2>1. runs[x][k1] \in Terminal
    <3>1. CASE runs[x][k2] # "none"
      BY <3>1, <1>3, <1>6
    <3>2. CASE runs[x][k2] = "none"
      <4>1. x = e1 /\ k2 = e2 + 1
        BY <3>2, <1>0, <1>2, <1>4, <1>6 DEF InsertedAfter
      <4>2. runs[x][e2] \in Terminal
        BY <4>1, <1>1, <1>2
      <4>3. k1 = e2 \/ k1 < e2
        BY <4>1, <1>1, <1>6 DEF Ticks
      <4> QED
        BY <4>2, <4>3, <1>1, <1>3, Statuses
    <3> QED
      BY <3>1, <3>2
  <2> QED
    BY <2>1, <1>5, Statuses
<1>7. ASSUME NEW y \in Ticks, runs'[x][y] \in Terminal
      PROVE  <<x, y, runs'[x][y]>> \in pending' \/ (y < MaxTicks /\ runs'[x][y + 1] # "none")
  <2>1. runs[x][y] \in Terminal /\ runs'[x][y] = runs[x][y]
    BY <1>0, <1>2, <1>7, Statuses DEF InsertedAfter
  <2>2. y < MaxTicks => y + 1 \in Ticks
    BY DEF Ticks
  <2>3. CASE y < MaxTicks /\ runs[x][y + 1] # "none"
    BY <2>2, <2>3, <1>5
  <2>4. CASE <<x, y, runs[x][y]>> \in pending /\ <<x, y, runs[x][y]>> # cEvent[c]
    BY <2>1, <2>4, <1>0
  <2>5. CASE <<x, y, runs[x][y]>> = cEvent[c]
    <3>1. x = e1 /\ y = e2
      BY <2>5
    <3>2. <<e1, e2 + 1>> \in cSpawn[c] \/ runs[e1][e2 + 1] # "none"
      BY <3>1, <1>2 DEF TxInv, Succeeds, ConsumerCommits
    <3> QED
      BY <3>1, <3>2, <1>0, <1>1, <1>2 DEF InsertedAfter
  <2> QED
    BY <2>1, <2>3, <2>4, <2>5, <1>3
<1> QED
  BY <1>2, <1>3, <1>5, <1>6, <1>7

\* The consumer's commit keeps the invariant.
LEMMA CommitsInv ==
  ASSUME IInv, NEW c \in Consumers, ConsumerCommits(c)
  PROVE  IInv'
<1>1. LocksExclusive'
  BY DEF IInv, TypeOK, LocksExclusive, ConsumerCommits, EndTransaction
<1> QED
  BY <1>1, CommitRows, CommitOthers, CommitOneRun, CommitTicks DEF IInv

----------------------------------------------------------------------------
(* task.cancel *)

\* A cancel takes a row that nobody has locked.
LEMMA CancelBeginsInv ==
  ASSUME IInv, NEW j \in Jobs, CancelBegins(j)
  PROVE  IInv'
<1> USE ContinuationAssumption DEF IInv
<1>1. /\ jobState[j] = "active" /\ j \notin RowLocked
      /\ cancelling' = cancelling \union {j}
      /\ flips' = [flips EXCEPT ![j] = {k \in Ticks : runs[j][k] \in Cancellable}]
      /\ UNCHANGED <<jobVars, runVars, txVars>>
  BY DEF CancelBegins
<1>2. UNCHANGED <<jobState, creating, runs, working, pending, dropped>>
  BY <1>1 DEF jobVars, runVars
<1>3. UNCHANGED <<cpc, cEvent, cSeen, cDowns, cSpawn, cDrop, cSettle, cLocked, aborts>>
  BY <1>1 DEF txVars
<1>4. TypeOK'
  BY <1>1, <1>2, <1>3 DEF TypeOK
<1>5. RowsInv'
  <2>1. Existence' /\ WorkersRun' /\ EventsTell'
    BY <1>2 DEF RowsInv, Existence, WorkersRun, EventsTell
  <2>2. "none" \notin Cancellable
    BY DEF Cancellable
  <2>3. CancelsHold'
    BY <1>1, <1>2, <2>2 DEF RowsInv, CancelsHold, TypeOK
  <2> QED
    BY <2>1, <2>3 DEF RowsInv
<1>6. ASSUME NEW c \in Consumers PROVE TxInv(c)'
  <2>1. EventLoaded(c)' /\ Listed(c)' /\ Succeeds(c)'
    BY <1>2, <1>3 DEF TxInv, EventLoaded, Listed, Succeeds
  <2>2. Spawns(c)' /\ SpawnsOne(c)'
    BY <1>2, <1>3 DEF TxInv, Spawns, SpawnsOne, HasExecutingRun
  <2>3. Settles(c)'
    BY <1>1, <1>2, <1>3 DEF TxInv, Settles, RowLocked
  <2> QED
    BY <2>1, <2>2, <2>3 DEF TxInv
<1>7. LocksExclusive' /\ OneExecutingRun' /\ TicksInOrder'
  BY <1>2, <1>3 DEF LocksExclusive, OneExecutingRun, TicksInOrder
<1> QED
  BY <1>4, <1>5, <1>6, <1>7

\* After a cancel's commit the job is cancelled, and another job is as it was or
\* settled, its row unlocked.
CancelledAfter(j) ==
  /\ jobState'[j] = "cancelled"
  /\ \A x \in Jobs \ {j} :
       \/ jobState'[x] = jobState[x]
       \/ x \notin RowLocked /\ jobState[x] = "active" /\ jobState'[x] = "completed"

\* The cancel flips runs that are there, of its own job only.
FlippedAfter(j) ==
  \A x \in Jobs, y \in Ticks :
    /\ x # j => runs'[x][y] = runs[x][y]
    /\ (runs'[x][y] = "none") <=> (runs[x][y] = "none")

\* The commit of a cancel.
LEMMA CancelCommitsInv ==
  ASSUME IInv, NEW j \in Jobs, CancelCommits(j)
  PROVE  IInv'
<1> USE ContinuationAssumption DEF IInv
<1> DEFINE st == [jobState EXCEPT ![j] = "cancelled"]
           busy == {x \in Jobs : HasExecutingRun(x)}
           settled == CancelCascade(j, st, busy)
<1>1. /\ j \in cancelling
      /\ settled \intersect RowLocked = {}
      /\ jobState' = [x \in Jobs |-> IF x \in settled THEN "completed" ELSE st[x]]
      /\ runs' = [runs EXCEPT ![j] = [k \in Ticks |-> IF k \in flips[j] THEN "CANCELLED" ELSE @[k]]]
      /\ pending' = pending \union {<<j, k, "CANCELLED">> : k \in flips[j]}
      /\ cancelling' = cancelling \ {j}
      /\ flips' = [flips EXCEPT ![j] = {}]
      /\ UNCHANGED <<creating, working, dropped, txVars>>
  BY DEF CancelCommits
<1>2. settled \subseteq Jobs /\ \A x \in settled : st[x] = "active"
  BY DEF CancelCascade, SettleCheck
<1> HIDE DEF settled
<1>3. CancelledAfter(j)
  BY <1>1, <1>2 DEF TypeOK, CancelledAfter
<1>4. FlippedAfter(j)
  <2>1. \A k \in flips[j] : runs[j][k] # "none"
    BY DEF RowsInv, CancelsHold, TypeOK
  <2> QED
    BY <1>1, <2>1 DEF TypeOK, FlippedAfter
<1>5. UNCHANGED <<cpc, cEvent, cSeen, cDowns, cSpawn, cDrop, cSettle, cLocked, aborts>>
  BY <1>1 DEF txVars
<1>6. jobState[j] = "active"
  BY <1>1 DEF RowsInv, CancelsHold
<1>7. TypeOK'
  <2>1. jobState' \in [Jobs -> JobState]
    BY <1>1 DEF TypeOK, JobState
  <2>2. runs' \in [Jobs -> [Ticks -> Executing \union Terminal \union {"none"}]]
    BY <1>1, Statuses DEF TypeOK
  <2>3. pending' \subseteq Events
    BY <1>1, Statuses DEF TypeOK, Events
  <2> QED
    BY <1>1, <1>5, <2>1, <2>2, <2>3 DEF TypeOK
<1>8. RowsInv'
  <2>1. Existence'
    <3>1. \A x \in Jobs : jobState'[x] = "absent" => \A y \in Ticks : runs'[x][y] = "none"
      BY <1>3, <1>4 DEF CancelledAfter, FlippedAfter, RowsInv, Existence
    <3>2. \A e \in pending' : e[1] \in Jobs /\ jobState[e[1]] # "absent"
      BY <1>1, <1>6, EventShape DEF RowsInv, Existence, TypeOK
    <3>3. \A e \in pending' : jobState'[e[1]] # "absent"
      BY <3>2, <1>3 DEF CancelledAfter
    <3>4. \A x \in creating' : jobState'[x] = "absent" /\ Trigger[x] # NoJob
      BY <1>1, <1>3, <1>6 DEF CancelledAfter, RowsInv, Existence, TypeOK
    <3> QED
      BY <3>1, <3>3, <3>4 DEF Existence
  <2>2. WorkersRun'
    <3> SUFFICES ASSUME NEW x \in Jobs, NEW y \in Ticks, <<x, y>> \in working
                 PROVE  runs'[x][y] = "RUNNING" \/ (jobState'[x] = "cancelled" /\ runs'[x][y] # "none")
      BY <1>1 DEF WorkersRun
    <3> QED
      BY <1>3, <1>4 DEF CancelledAfter, FlippedAfter, RowsInv, WorkersRun
  <2>3. EventsTell'
    <3> SUFFICES ASSUME NEW x \in Jobs, NEW y \in Ticks, NEW s \in Terminal, <<x, y, s>> \in pending'
                 PROVE  jobState'[x] = "cancelled" \/ runs'[x][y] = s
      BY DEF EventsTell
    <3>1. x # j => <<x, y, s>> \in pending
      BY <1>1
    <3> QED
      BY <3>1, <1>3, <1>4 DEF CancelledAfter, FlippedAfter, RowsInv, EventsTell
  <2>4. CancelsHold'
    <3>1. \A x \in cancelling' : x # j /\ x \in cancelling /\ x \in RowLocked /\ x \in Jobs
      BY <1>1 DEF RowLocked, TypeOK
    <3>2. \A x \in cancelling' : jobState'[x] = "active"
      BY <3>1, <1>3 DEF CancelledAfter, RowsInv, CancelsHold
    <3>3. \A x \in Jobs, k \in Ticks : k \in flips'[x] => x \in cancelling' /\ runs'[x][k] # "none"
      BY <1>1, <1>4 DEF FlippedAfter, RowsInv, CancelsHold, TypeOK
    <3> QED
      BY <3>2, <3>3 DEF CancelsHold
  <2> QED
    BY <2>1, <2>2, <2>3, <2>4 DEF RowsInv
<1>9. ASSUME NEW c \in Consumers PROVE TxInv(c)'
  <2>1. cpc[c] # "idle" => cEvent[c][1] \in Jobs /\ cEvent[c][2] \in Ticks
    BY EventShape DEF TxInv, EventLoaded
  <2>2. EventLoaded(c)'
    BY <1>3, <1>4, <1>5, <2>1 DEF CancelledAfter, FlippedAfter, TxInv, EventLoaded
  <2>3. Listed(c)'
    <3>1. cDowns[c] \subseteq Jobs /\ Listed(c)
      BY DEF TxInv, TypeOK
    <3>2. \A x \in Jobs : jobState[x] # "absent" => jobState'[x] # "absent"
      BY <1>3 DEF CancelledAfter
    <3> QED
      BY <3>1, <3>2, <1>5 DEF Listed
  <2>4. Spawns(c)' /\ SpawnsOne(c)'
    <3>1. Spawns(c)'
      BY <1>3, <1>4, <1>5 DEF CancelledAfter, FlippedAfter, TxInv, Spawns, HasExecutingRun
    <3>2. SpawnsOne(c)'
      BY <1>5 DEF TxInv, SpawnsOne
    <3> QED
      BY <3>1, <3>2
  <2>5. Settles(c)'
    <3>1. \A x \in cSettle[c] : x \in RowLocked /\ x # j /\ x \in Jobs
      BY <1>1 DEF RowLocked, TxInv, Settles, TypeOK
    <3> QED
      BY <3>1, <1>1, <1>3, <1>5 DEF CancelledAfter, TxInv, Settles
  <2>6. Succeeds(c)'
    <3> SUFFICES ASSUME cpc[c] \in {"listed", "checked"}, cEvent[c][1] \in Recurring,
                        jobState'[cEvent[c][1]] # "cancelled"
                 PROVE  \/ <<cEvent[c][1], cEvent[c][2] + 1>> \in cSpawn[c]
                        \/ runs'[cEvent[c][1]][cEvent[c][2] + 1] # "none"
      BY <1>5 DEF Succeeds
    <3>1. cEvent[c][1] \in Jobs /\ cEvent[c][2] + 1 \in Ticks
      BY <2>1 DEF TxInv, EventLoaded, Ticks
    <3> QED
      BY <3>1, <1>3, <1>4 DEF CancelledAfter, FlippedAfter, TxInv, Succeeds
  <2> QED
    BY <2>2, <2>3, <2>4, <2>5, <2>6 DEF TxInv
<1>10. LocksExclusive'
  BY <1>5 DEF LocksExclusive
<1>11. OneExecutingRun'
  BY <1>3, <1>4 DEF CancelledAfter, FlippedAfter, OneExecutingRun
<1>12. TicksInOrder'
  <2>1. pending \subseteq pending'
    BY <1>1
  <2>2. \A x \in Recurring : jobState'[x] \notin {"absent", "cancelled"} =>
          x \in Jobs /\ x # j /\ jobState[x] \notin {"absent", "cancelled"}
    BY <1>3 DEF CancelledAfter
  <2>3. \A x \in Jobs \ {j} : runs'[x] = runs[x]
    BY <1>1 DEF TypeOK
  <2> QED
    BY <2>1, <2>2, <2>3 DEF TicksInOrder
<1> QED
  BY <1>7, <1>8, <1>9, <1>10, <1>11, <1>12

----------------------------------------------------------------------------
(* Every step *)

\* The invariant is inductive.
LEMMA NextInv == IInv /\ [Next]_vars => IInv'
<1> SUFFICES ASSUME IInv, [Next]_vars PROVE IInv'
  OBVIOUS
<1>1. CASE CreateStep
  BY <1>1, CreateInv DEF CreateStep
<1>2. CASE RunStep
  BY <1>2, RunInv DEF RunStep
<1>3. ASSUME NEW c \in Consumers, ConsumerStep(c) \/ ConsumerAborts(c) PROVE IInv'
  BY <1>3, LoadsInv, ListsInv, ChecksInv, CommitsInv, AbortsInv DEF ConsumerStep
<1>4. CASE CancelStep
  BY <1>4, CancelBeginsInv, CancelCommitsInv DEF CancelStep
<1>5. CASE UNCHANGED vars
  <2>1. TypeOK' /\ RowsInv'
    BY <1>5 DEF IInv, vars, TypeOK, RowsInv, Existence, WorkersRun, EventsTell, CancelsHold
  <2>2. ASSUME NEW c \in Consumers PROVE TxInv(c)'
    BY <1>5, OthersKeep DEF IInv, vars
  <2>3. LocksExclusive' /\ OneExecutingRun' /\ TicksInOrder'
    BY <1>5 DEF IInv, vars, LocksExclusive, OneExecutingRun, TicksInOrder
  <2> QED
    BY <2>1, <2>2, <2>3 DEF IInv
<1> QED
  BY <1>1, <1>2, <1>3, <1>4, <1>5 DEF Next

----------------------------------------------------------------------------
(* Theorems *)

\* The inductive invariant holds of every reachable state.
THEOREM ContinuationInvariance == Spec => []IInv
  BY InitInv, NextInv, PTL DEF Spec

\* Every variable keeps its type.
THEOREM ContinuationTypeCorrect == Spec => []TypeOK
<1>1. IInv => TypeOK
  BY DEF IInv
<1> QED
  BY <1>1, ContinuationInvariance, PTL

\* ADR-065, decision 4: a job that is not cancelled has at most one executing
\* run, for any number of consumers, cancels and workers.
THEOREM OneRunAtATime == Spec => []OneExecutingRun
<1>1. IInv => OneExecutingRun
  BY DEF IInv
<1> QED
  BY <1>1, ContinuationInvariance, PTL

\* The job itself counts as stopped once it is cancelled.
LEMMA CancelledIsStopped ==
  ASSUME NEW j, jobState[j] = "cancelled"
  PROVE  Stopped(j)
  BY DEF Stopped

\* A run that has ended is never brought back: an event handled twice, or by two
\* consumers, finds it there.
THEOREM NeverBroughtBack == Spec => CreatedOnce
<1> DEFINE Kept == \A j \in Jobs, k \in Ticks :
             runs[j][k] \in Terminal /\ ~Stopped(j) => runs'[j][k] \in Terminal
<1>1. IInv /\ [Next]_vars => [Kept]_vars
  <2> SUFFICES ASSUME IInv, [Next]_vars, NEW j \in Jobs, NEW k \in Ticks,
                      runs[j][k] \in Terminal, jobState[j] # "cancelled"
               PROVE  runs'[j][k] \in Terminal
    BY CancelledIsStopped
  <2>0. runs[j][k] # "none" /\ runs[j][k] \notin Executing /\ jobState[j] # "absent"
    BY Statuses DEF IInv, RowsInv, Existence
  <2>1. ASSUME NEW x \in Jobs, CreateScheduled(x) \/ CreateValidates(x) \/ CreateCommits(x)
        PROVE  runs'[j][k] = runs[j][k]
    BY <2>0, <2>1 DEF CreateScheduled, CreateValidates, CreateCommits, runVars, IInv, TypeOK
  <2>2. ASSUME NEW x \in Jobs, NEW y \in Ticks,
               \/ RunStarts(x, y) \/ RunRetries(x, y) \/ RunRecovered(x, y) \/ RunSwept(x, y)
               \/ \E s \in {"SUCCEEDED", "FAILED"} : RunEnds(x, y, s)
        PROVE  runs'[j][k] = runs[j][k]
    <3>1. RunFacts(x, y)
      BY <2>2, RunShapes, RunEffects
    <3> QED
      BY <3>1 DEF RunFacts, RunsAfter
  <2>3. ASSUME NEW c \in Consumers, ConsumerStep(c) \/ ConsumerAborts(c)
        PROVE  runs'[j][k] = runs[j][k]
    <3>1. CASE ConsumerCommits(c)
      BY <3>1, <2>0, CommitEffects DEF KeptAfter
    <3>2. CASE ~ConsumerCommits(c)
      BY <3>2, <2>3 DEF ConsumerStep, ConsumerAborts, ConsumerLoads, ConsumerLists, ConsumerChecks, runVars
    <3> QED
      BY <3>1, <3>2
  <2>4. ASSUME NEW x \in Jobs, CancelBegins(x) \/ CancelCommits(x)
        PROVE  runs'[j][k] \in Terminal
    <3>1. CASE CancelBegins(x)
      BY <3>1 DEF CancelBegins, runVars
    <3>2. CASE CancelCommits(x)
      BY <3>2, Statuses DEF CancelCommits, IInv, TypeOK
    <3> QED
      BY <2>4, <3>1, <3>2
  <2>5. CASE UNCHANGED vars
    BY <2>5 DEF vars
  <2> QED
    BY <2>1, <2>2, <2>3, <2>4, <2>5 DEF Next, CreateStep, RunStep, CancelStep
<1> QED
  BY <1>1, ContinuationInvariance, PTL DEF Spec, CreatedOnce

\* A set of numbers that is not empty has a least one.
LEMMA LeastNumber ==
  ASSUME NEW T, T \subseteq Nat, T # {}
  PROVE  \E n \in T : \A m \in T : n <= m
<1>1. PICK n \in T : \A m \in T : ~(<<m, n>> \in OpToRel(<, Nat))
  BY NatLessThanWellFounded, WFMin
<1>2. \A m \in T : m < n => <<m, n>> \in OpToRel(<, Nat)
  BY DEF OpToRel
<1>3. \A m \in T : ~(m < n)
  BY <1>1, <1>2, Zenon
<1>4. \A m \in T : n <= m
  BY <1>3
<1> QED
  BY <1>4

\* The recurrence never wedges: an active recurring job has a run under way or an
\* event still to be handled.  (The latest run of the job is executing, or it has
\* ended and, having no successor, left its event.)
THEOREM RecurrenceNeverWedges == Spec => []RecurrenceAlive
<1>1. IInv => RecurrenceAlive
  <2> SUFFICES ASSUME IInv, NEW j \in Recurring, jobState[j] = "active",
                      \A e \in pending : e[1] # j
               PROVE  HasExecutingRun(j)
    BY DEF RecurrenceAlive
  <2> USE ContinuationAssumption DEF IInv
  <2>1. /\ runs[j][1] # "none"
        /\ \A k \in Ticks : runs[j][k] \in Terminal => k < MaxTicks /\ runs[j][k + 1] # "none"
    BY DEF TicksInOrder
  <2>2. \A k \in Ticks : runs[j][k] \in Executing \union Terminal \union {"none"}
    BY DEF TypeOK
  <2> SUFFICES ASSUME \A k \in Ticks : runs[j][k] \notin Executing PROVE FALSE
    BY DEF HasExecutingRun
  <2> DEFINE Ended == {k \in Nat : MaxTicks - k \in Ticks /\ runs[j][MaxTicks - k] \in Terminal}
  <2>3. MaxTicks - 1 \in Ended
    BY <2>1, <2>2 DEF Ticks
  <2>4. PICK m \in Ended : \A x \in Ended : m <= x
    BY <2>3, LeastNumber
  <2>5. /\ MaxTicks - m \in Ticks /\ runs[j][MaxTicks - m] \in Terminal /\ m \in Nat
        /\ MaxTicks - m < MaxTicks /\ runs[j][(MaxTicks - m) + 1] # "none"
    BY <2>1
  <2>6. m - 1 \in Nat /\ MaxTicks - (m - 1) = (MaxTicks - m) + 1 /\ MaxTicks - (m - 1) \in Ticks
    BY <2>5 DEF Ticks
  <2>7. m - 1 \in Ended
    BY <2>2, <2>5, <2>6
  <2> QED
    BY <2>4, <2>5, <2>6, <2>7
<1> QED
  BY <1>1, ContinuationInvariance, PTL
=============================================================================
