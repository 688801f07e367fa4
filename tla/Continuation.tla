---------------------------- MODULE Continuation ----------------------------
(***************************************************************************)
(* The continuation consumer: what follows a run that has ended.  For each *)
(* terminal run_event it inserts the next run of a recurring job, one run  *)
(* for each job triggered by the event's job, and settles the jobs whose   *)
(* schedule is exhausted.  task.create and task.cancel change the same     *)
(* jobs concurrently.                                                      *)
(*                                                                         *)
(* Module RunLifecycle describes what happens inside one run; here a run   *)
(* starts, ends, is retried or recovered, as its contract allows.          *)
(*                                                                         *)
(* Run <<j, k>> is the run of job j for tick k.  Successive cron ticks are *)
(* strictly later, so they are numbered; a triggered run takes the number  *)
(* of the upstream run that caused it.  Thus <<j, k>> stands for the key   *)
(* (job_id, scheduled_at) of uq_job_runs_recurring_tick and for the key    *)
(* (job_id, wait_for_run_id) of uq_job_runs_trigger_cause.                 *)
(*                                                                         *)
(* Transactions run at READ COMMITTED: the consumer's is four steps, each  *)
(* reading what is committed by then, with its writes visible at the last. *)
(* One transaction handles one event here; the code batches up to 50.      *)
(***************************************************************************)
EXTENDS Integers, FiniteSets

CONSTANTS
  Jobs,        \* jobs rows, existing or yet to be created
  NoJob,       \* trigger_on_job_id IS NULL
  Recurring,   \* jobs with a cron_expr
  Trigger,     \* trigger_on_job_id of each job
  TriggerOn,   \* trigger_on_status of each job
  Existing,    \* jobs that exist at the start
  Consumers,   \* continuation consumer processes (run_recurring_watcher)
  MaxDepth,    \* MAX_CHAIN_DEPTH
  MaxTicks,    \* bound on the ticks of a recurring job
  MaxAborts    \* bound on the consumer transactions that roll back

Ticks == 1 .. MaxTicks

ASSUME ContinuationAssumption ==
  /\ NoJob \notin Jobs
  /\ Trigger \in [Jobs -> Jobs \union {NoJob}]
  /\ TriggerOn \in [Jobs -> {"SUCCEEDED", "FAILED", "ANY"}]
  /\ Recurring \subseteq {j \in Jobs : Trigger[j] = NoJob}   \* V6
  /\ Existing \subseteq Jobs
  /\ \A j \in Existing : Trigger[j] \in Existing \union {NoJob}
  /\ MaxDepth \in Nat \ {0}
  /\ MaxTicks \in Nat \ {0}
  /\ MaxAborts \in Nat

\* The jobs a job is triggered by, directly or through others: those in every
\* set that holds the trigger of the job and of each of its own members.
Upstream(j) ==
  {x \in Jobs : \A S \in SUBSET Jobs :
     (\A y \in S \union {j} : Trigger[y] \in S \union {NoJob}) => x \in S}

\* The pipelines that exist at the start are as validate_chain lets them be (V5),
\* and no job is upstream of itself (V4: a trigger is named before the job that
\* names it exists).
ASSUME ChainAssumption ==
  /\ \A W \in SUBSET Jobs : W # {} => \E j \in W : Trigger[j] \notin W
  /\ \A j \in Existing : 1 + Cardinality(Upstream(j)) <= MaxDepth

VARIABLES
  jobState,    \* jobs.state; "absent" before the insert
  runs,        \* job_runs.status, by job and tick; "none" before the insert
  working,     \* runs a worker is executing
  pending,     \* terminal run_events without the processed_by stamp
  dropped,     \* runs for which CHAIN_SKIPPED_SLOW_CONSUMER was recorded
  creating,    \* chained jobs whose create has validated and not committed
  cancelling,  \* jobs whose cancel holds the row lock and has not committed
  flips,       \* the ticks whose run an open cancel read as cancellable
  cpc,         \* progress of each consumer's transaction
  cEvent,      \* the event it handles
  cSeen,       \* the state of the event's job, as it loaded it
  cDowns,      \* the active downstream jobs, as it listed them
  cSpawn,      \* the runs it inserts
  cDrop,       \* the drops it records
  cSettle,     \* the jobs it settles (row locks it holds)
  cLocked,     \* the advisory job locks it holds
  aborts       \* transactions rolled back so far (bounded by MaxAborts)

jobVars    == <<jobState, creating>>
runVars    == <<runs, working, pending, dropped>>
cancelVars == <<cancelling, flips>>
txVars     == <<cpc, cEvent, cSeen, cDowns, cSpawn, cDrop, cSettle, cLocked, aborts>>
vars == <<jobState, runs, working, pending, dropped, creating, cancelling, flips,
          cpc, cEvent, cSeen, cDowns, cSpawn, cDrop, cSettle, cLocked, aborts>>

----------------------------------------------------------------------------
(* Values *)

Cancellable == {"PENDING", "RETRYING"}   \* PENDING stands for QUEUED as well
Executing   == Cancellable \union {"RUNNING"}
Terminal    == {"SUCCEEDED", "FAILED", "CANCELLED"}
RunIds      == Jobs \X Ticks
Events      == Jobs \X Ticks \X Terminal
NoEvent     == <<NoJob, 0, "none">>
JobState    == {"absent", "active", "completed", "cancelled"}

TypeOK ==
  /\ jobState \in [Jobs -> JobState]
  /\ runs \in [Jobs -> [Ticks -> Executing \union Terminal \union {"none"}]]
  /\ working \subseteq RunIds
  /\ pending \subseteq Events
  /\ dropped \subseteq RunIds
  /\ creating \subseteq Jobs
  /\ cancelling \subseteq Jobs
  /\ flips \in [Jobs -> SUBSET Ticks]
  /\ cpc \in [Consumers -> {"idle", "loaded", "listed", "checked"}]
  /\ cEvent \in [Consumers -> Events \union {NoEvent}]
  /\ cSeen \in [Consumers -> JobState]
  /\ cDowns \in [Consumers -> SUBSET Jobs]
  /\ cSpawn \in [Consumers -> SUBSET RunIds]
  /\ cDrop \in [Consumers -> SUBSET RunIds]
  /\ cSettle \in [Consumers -> SUBSET Jobs]
  /\ cLocked \in [Consumers -> SUBSET Jobs]
  /\ aborts \in 0 .. MaxAborts

\* A job not driven by a trigger has its first run; a chained one has none.
FirstRun(j) == [k \in Ticks |-> IF k = 1 /\ Trigger[j] = NoJob THEN "PENDING" ELSE "none"]

Init ==
  /\ jobState = [j \in Jobs |-> IF j \in Existing THEN "active" ELSE "absent"]
  /\ runs = [j \in Jobs |-> IF j \in Existing THEN FirstRun(j) ELSE [k \in Ticks |-> "none"]]
  /\ working = {} /\ pending = {} /\ dropped = {}
  /\ creating = {} /\ cancelling = {}
  /\ flips = [j \in Jobs |-> {}]
  /\ cpc = [c \in Consumers |-> "idle"]
  /\ cEvent = [c \in Consumers |-> NoEvent]
  /\ cSeen = [c \in Consumers |-> "absent"]
  /\ cDowns = [c \in Consumers |-> {}]
  /\ cSpawn = [c \in Consumers |-> {}]
  /\ cDrop = [c \in Consumers |-> {}]
  /\ cSettle = [c \in Consumers |-> {}]
  /\ cLocked = [c \in Consumers |-> {}]
  /\ aborts = 0

----------------------------------------------------------------------------
(* Helpers *)

\* Jobs triggered by one of the jobs S.
Downstream(S) == {d \in Jobs : Trigger[d] \in S}

\* has_executing_run
HasExecutingRun(j) == \E k \in Ticks : runs[j][k] \in Executing

\* _triggers_on
TriggersOn(d, s) == TriggerOn[d] \in {"ANY", s}

\* settle_job's WHERE clause: one-shot and immediate jobs only.
SettledByWorker(j) == j \notin Recurring /\ Trigger[j] = NoJob

\* Faulty variant of SettleCheck: no cascade.
SettleCheckNoCascade(roots, st, busy) ==
  {j \in roots \ Recurring : /\ st[j] = "active" /\ j \notin busy
                             /\ Trigger[j] = NoJob \/ st[Trigger[j]] # "active"}

\* The jobs settle_check settles when it starts from the jobs `roots`, given
\* the job states st and the jobs `busy` that have an executing run: each is
\* active, not recurring, not busy, its trigger parent is not active (or is
\* settled by the same cascade), and the cascade reaches it.
SettleCheck(roots, st, busy) ==
  UNION { T \in SUBSET (Jobs \ Recurring) :
            \A j \in T :
              /\ st[j] = "active" /\ j \notin busy
              /\ Trigger[j] = NoJob \/ Trigger[j] \in T \/ st[Trigger[j]] # "active"
              /\ j \in roots \/ Trigger[j] \in T }

\* The jobs whose advisory lock that cascade takes.
Visited(roots, st, settled) ==
  {j \in (roots \union Downstream(settled)) \ Recurring : st[j] = "active"}

LockedByOthers(c) == UNION {cLocked[x] : x \in Consumers \ {c}}

\* Faulty variant of LocksFree: downstream jobs are not locked (issue #237).
LocksFreeAlways(c, locks) == TRUE

\* pg_advisory_xact_lock on each of the jobs `locks` need not wait.
LocksFree(c, locks) == locks \intersect LockedByOthers(c) = {}

RowLocked == cancelling \union UNION {cSettle[x] : x \in Consumers}

----------------------------------------------------------------------------
(* task.create: create_job, validate_chain *)

\* A job with a schedule of its own: job and first run in one transaction.
CreateScheduled(j) ==
  /\ jobState[j] = "absent" /\ Trigger[j] = NoJob
  /\ jobState' = [jobState EXCEPT ![j] = "active"]
  /\ runs' = [runs EXCEPT ![j] = FirstRun(j)]
  /\ UNCHANGED <<creating, working, pending, dropped, cancelVars, txVars>>

\* _ANCESTORS_CTE: ancestors[d] holds the row at depth d of the walk from a job
\* along trigger_on_job_id, the job itself being at depth 1; the walk goes no
\* deeper than MaxDepth + 2, and its depth is the number of rows.
AncestorDepth(j) ==
  LET ancestors[d \in 1 .. MaxDepth + 2] ==
        IF d = 1 THEN {j} ELSE {Trigger[x] : x \in ancestors[d - 1]} \ {NoJob}
  IN Cardinality({d \in 1 .. MaxDepth + 2 : ancestors[d] # {}})

\* Faulty variant of CreateValidates: the new job is not counted.
CreateValidatesDeeper(j) ==
  /\ jobState[j] = "absent" /\ j \notin creating /\ Trigger[j] # NoJob
  /\ jobState[Trigger[j]] = "active"
  /\ AncestorDepth(Trigger[j]) <= MaxDepth
  /\ creating' = creating \union {j}
  /\ UNCHANGED <<jobState, runVars, cancelVars, txVars>>

\* validate_chain V1-V5: the trigger job exists and is active, and the chain is
\* not too long.  The SELECT takes no lock.  (V4: a trigger is named before the
\* job that names it exists, so no cycle arises.)
CreateValidates(j) ==
  /\ jobState[j] = "absent" /\ j \notin creating /\ Trigger[j] # NoJob
  /\ jobState[Trigger[j]] = "active"
  /\ AncestorDepth(Trigger[j]) < MaxDepth
  /\ creating' = creating \union {j}
  /\ UNCHANGED <<jobState, runVars, cancelVars, txVars>>

\* The insert, without a run.
CreateCommits(j) ==
  /\ j \in creating
  /\ creating' = creating \ {j}
  /\ jobState' = [jobState EXCEPT ![j] = "active"]
  /\ UNCHANGED <<runVars, cancelVars, txVars>>

----------------------------------------------------------------------------
(* Runs, as the contract of module RunLifecycle lets them move *)

\* Claimed by a worker, which does not look at the job's state.
RunStarts(j, k) ==
  /\ runs[j][k] \in Cancellable /\ <<j, k>> \notin working
  /\ runs' = [runs EXCEPT ![j][k] = "RUNNING"]
  /\ working' = working \union {<<j, k>>}
  /\ UNCHANGED <<jobVars, pending, dropped, cancelVars, txVars>>

\* The terminal write by run_id (a cancel may have overwritten RUNNING), its
\* event and settle_job, in one transaction.
RunEnds(j, k, s) ==
  /\ <<j, k>> \in working
  /\ SettledByWorker(j) => j \notin RowLocked
  /\ runs' = [runs EXCEPT ![j][k] = s]
  /\ pending' = pending \union {<<j, k, s>>}
  /\ working' = working \ {<<j, k>>}
  /\ jobState' = [jobState EXCEPT ![j] =
                    IF @ = "active" /\ SettledByWorker(j) THEN "completed" ELSE @]
  /\ UNCHANGED <<dropped, creating, cancelVars, txVars>>

\* _write_retrying
RunRetries(j, k) ==
  /\ <<j, k>> \in working
  /\ runs' = [runs EXCEPT ![j][k] = "RETRYING"]
  /\ working' = working \ {<<j, k>>}
  /\ UNCHANGED <<jobVars, pending, dropped, cancelVars, txVars>>

\* The worker dies; Sweep C resets the run to QUEUED if it is still RUNNING.
\* (A Sweep C that fails the run is RunEnds.)
RunRecovered(j, k) ==
  /\ <<j, k>> \in working
  /\ runs' = [runs EXCEPT ![j][k] = IF @ = "RUNNING" THEN "PENDING" ELSE @]
  /\ working' = working \ {<<j, k>>}
  /\ UNCHANGED <<jobVars, pending, dropped, cancelVars, txVars>>

\* Sweep A: FAILED with its event, and no settle_job.
RunSwept(j, k) ==
  /\ runs[j][k] = "RETRYING"
  /\ runs' = [runs EXCEPT ![j][k] = "FAILED"]
  /\ pending' = pending \union {<<j, k, "FAILED">>}
  /\ UNCHANGED <<jobVars, working, dropped, cancelVars, txVars>>

----------------------------------------------------------------------------
(* The consumer: poll_once, for one event *)

\* An unprocessed event is read and its job loaded.  Nothing is locked: a
\* second consumer may read the same event.  (MaxTicks bounds recurrence: the
\* last tick of a recurring job is not continued.)
ConsumerLoads(c, e) ==
  /\ cpc[c] = "idle" /\ e \in pending
  /\ e[1] \in Recurring => e[2] < MaxTicks
  /\ cpc' = [cpc EXCEPT ![c] = "loaded"]
  /\ cEvent' = [cEvent EXCEPT ![c] = e]
  /\ cSeen' = [cSeen EXCEPT ![c] = jobState[e[1]]]
  /\ UNCHANGED <<jobVars, runVars, cancelVars, cDowns, cSpawn, cDrop, cSettle, cLocked, aborts>>

\* Faulty variant of Successor: without the unique index on the tick.
SuccessorAgain(j, k, seen) ==
  {r \in {<<j, k + 1>>} : j \in Recurring /\ seen # "cancelled" /\ ~HasExecutingRun(j)}

\* _materialize_recurring_successor: the next tick, unless the job was loaded
\* as cancelled (cancelled_at), has an executing run (ConcurrencyError) or has
\* that tick already (IntegrityError; the savepoint gives the lock back).
Successor(j, k, seen) ==
  {r \in {<<j, k + 1>>} : /\ j \in Recurring /\ seen # "cancelled"
                         /\ ~HasExecutingRun(j) /\ runs[j][k + 1] = "none"}

\* The successor, then the SELECT of the active downstream jobs.
ConsumerLists(c) ==
  LET j == cEvent[c][1]
      next == Successor(j, cEvent[c][2], cSeen[c]) IN
  /\ cpc[c] = "loaded"
  /\ j \in Recurring => j \notin LockedByOthers(c)
  /\ cpc' = [cpc EXCEPT ![c] = "listed"]
  /\ cSpawn' = [cSpawn EXCEPT ![c] = next]
  /\ cLocked' = [cLocked EXCEPT ![c] = {r[1] : r \in next}]
  /\ cDowns' = [cDowns EXCEPT ![c] =
                  IF cSeen[c] = "cancelled" THEN {}
                  ELSE {d \in Downstream({j}) : jobState[d] = "active"}]
  /\ UNCHANGED <<jobVars, runVars, cancelVars, cEvent, cSeen, cDrop, cSettle, aborts>>

\* materialize_downstream for each listed job whose predicate matches: a run
\* caused by run k, unless the job has an executing run or that cause has had
\* its run.
Triggered(downs, k, s) ==
  { <<d, k>> : d \in {x \in downs : /\ TriggersOn(x, s) /\ ~HasExecutingRun(x)
                                   /\ runs[x][k] = "none"} }

\* Faulty variant of SlowConsumers: the drop is only logged.
SlowConsumersUnaudited(downs, k, s) == {}

\* ConcurrencyError in materialize_downstream: an audited drop.
SlowConsumers(downs, k, s) ==
  { <<d, k>> : d \in {x \in downs : TriggersOn(x, s) /\ HasExecutingRun(x)} }

\* Faulty variant of ConsumerChecks: settles before the new runs count.
ConsumerChecksSettleFirst(c) ==
  LET j == cEvent[c][1]
      k == cEvent[c][2]
      s == cEvent[c][3]
      spawn == cSpawn[c] \union Triggered(cDowns[c], k, s)
      busy == {x \in Jobs : HasExecutingRun(x)}
      roots == cDowns[c] \union {j}
      settled == SettleCheck(roots, jobState, busy)
      locks == cDowns[c] \union Visited(roots, jobState, settled) IN
  /\ cpc[c] = "listed"
  /\ LocksFree(c, locks)
  /\ settled \intersect RowLocked = {}
  /\ cpc' = [cpc EXCEPT ![c] = "checked"]
  /\ cSpawn' = [cSpawn EXCEPT ![c] = spawn]
  /\ cDrop' = [cDrop EXCEPT ![c] = SlowConsumers(cDowns[c], k, s)]
  /\ cSettle' = [cSettle EXCEPT ![c] = settled]
  /\ cLocked' = [cLocked EXCEPT ![c] = @ \union locks]
  /\ UNCHANGED <<jobVars, runVars, cancelVars, cEvent, cSeen, cDowns, aborts>>

\* The downstream runs, then settle_check of the event's job and of each
\* listed job, under their advisory locks.
ConsumerChecks(c) ==
  LET j == cEvent[c][1]
      k == cEvent[c][2]
      s == cEvent[c][3]
      spawn == cSpawn[c] \union Triggered(cDowns[c], k, s)
      busy == {x \in Jobs : HasExecutingRun(x)} \union {r[1] : r \in spawn}
      roots == cDowns[c] \union {j}
      settled == SettleCheck(roots, jobState, busy)
      locks == cDowns[c] \union Visited(roots, jobState, settled) IN
  /\ cpc[c] = "listed"
  /\ LocksFree(c, locks)
  /\ settled \intersect RowLocked = {}
  /\ cpc' = [cpc EXCEPT ![c] = "checked"]
  /\ cSpawn' = [cSpawn EXCEPT ![c] = spawn]
  /\ cDrop' = [cDrop EXCEPT ![c] = SlowConsumers(cDowns[c], k, s)]
  /\ cSettle' = [cSettle EXCEPT ![c] = settled]
  /\ cLocked' = [cLocked EXCEPT ![c] = @ \union locks]
  /\ UNCHANGED <<jobVars, runVars, cancelVars, cEvent, cSeen, cDowns, aborts>>

\* The transaction is over and its locks are free.
EndTransaction(c) ==
  /\ cpc' = [cpc EXCEPT ![c] = "idle"]
  /\ cEvent' = [cEvent EXCEPT ![c] = NoEvent]
  /\ cSeen' = [cSeen EXCEPT ![c] = "absent"]
  /\ cDowns' = [cDowns EXCEPT ![c] = {}]
  /\ cSpawn' = [cSpawn EXCEPT ![c] = {}]
  /\ cDrop' = [cDrop EXCEPT ![c] = {}]
  /\ cSettle' = [cSettle EXCEPT ![c] = {}]
  /\ cLocked' = [cLocked EXCEPT ![c] = {}]

\* Commit: runs, drops, settled jobs and the processed_by stamp together.
ConsumerCommits(c) ==
  /\ cpc[c] = "checked"
  /\ runs' = [j \in Jobs |-> [k \in Ticks |->
                 IF <<j, k>> \in cSpawn[c] THEN "PENDING" ELSE runs[j][k]]]
  /\ dropped' = dropped \union cDrop[c]
  /\ jobState' = [j \in Jobs |-> IF j \in cSettle[c] THEN "completed" ELSE jobState[j]]
  /\ pending' = pending \ {cEvent[c]}
  /\ EndTransaction(c)
  /\ UNCHANGED <<working, creating, cancelVars, aborts>>

\* Faulty variant of ConsumerAborts: the stamp is committed ahead of the work.
ConsumerAbortsStamped(c) ==
  /\ cpc[c] # "idle" /\ aborts < MaxAborts
  /\ aborts' = aborts + 1
  /\ pending' = pending \ {cEvent[c]}
  /\ EndTransaction(c)
  /\ UNCHANGED <<jobVars, runs, working, dropped, cancelVars>>

\* The process dies or the tick raises (a lost connection, a deadlock victim):
\* everything rolls back and the event stays unprocessed.
ConsumerAborts(c) ==
  /\ cpc[c] # "idle" /\ aborts < MaxAborts
  /\ aborts' = aborts + 1
  /\ EndTransaction(c)
  /\ UNCHANGED <<jobVars, runVars, cancelVars>>

----------------------------------------------------------------------------
(* task.cancel: cancel_job *)

\* The CAS active -> cancelled takes the row lock; then the runs are read.
CancelBegins(j) ==
  /\ jobState[j] = "active" /\ j \notin RowLocked
  /\ cancelling' = cancelling \union {j}
  /\ flips' = [flips EXCEPT ![j] = {k \in Ticks : runs[j][k] \in Cancellable}]
  /\ UNCHANGED <<jobVars, runVars, txVars>>

\* Faulty variant of CancelCascade: the jobs downstream are left alone.
CancelCascadeNone(j, st, busy) == {}

\* settle_check of each job downstream of the cancelled one.
CancelCascade(j, st, busy) == SettleCheck(Downstream({j}), st, busy)

\* The runs read as cancellable are CANCELLED, whatever they are by now; the
\* cascade settles the jobs downstream; commit.
CancelCommits(j) ==
  LET st == [jobState EXCEPT ![j] = "cancelled"]
      busy == {x \in Jobs : HasExecutingRun(x)}
      settled == CancelCascade(j, st, busy) IN
  /\ j \in cancelling
  /\ \A c \in Consumers : cLocked[c] \intersect Visited(Downstream({j}), st, settled) = {}
  /\ settled \intersect RowLocked = {}
  /\ jobState' = [x \in Jobs |-> IF x \in settled THEN "completed" ELSE st[x]]
  /\ runs' = [runs EXCEPT ![j] = [k \in Ticks |-> IF k \in flips[j] THEN "CANCELLED" ELSE @[k]]]
  /\ pending' = pending \union {<<j, k, "CANCELLED">> : k \in flips[j]}
  /\ cancelling' = cancelling \ {j}
  /\ flips' = [flips EXCEPT ![j] = {}]
  /\ UNCHANGED <<creating, working, dropped, txVars>>

----------------------------------------------------------------------------
CreateStep == \E j \in Jobs : CreateScheduled(j) \/ CreateValidates(j) \/ CreateCommits(j)

RunStep ==
  \E j \in Jobs, k \in Ticks :
    \/ RunStarts(j, k) \/ RunRetries(j, k) \/ RunRecovered(j, k) \/ RunSwept(j, k)
    \/ \E s \in {"SUCCEEDED", "FAILED"} : RunEnds(j, k, s)

ConsumerStep(c) ==
  \/ \E e \in pending : ConsumerLoads(c, e)
  \/ ConsumerLists(c) \/ ConsumerChecks(c) \/ ConsumerCommits(c)

CancelStep == \E j \in Jobs : CancelBegins(j) \/ CancelCommits(j)

Next ==
  \/ CreateStep
  \/ RunStep
  \/ \E c \in Consumers : ConsumerStep(c) \/ ConsumerAborts(c)
  \/ CancelStep

Spec == Init /\ [][Next]_vars

\* The consumer's loop comes round for every unprocessed event, an open
\* transaction ends, a committed run starts, and a run that keeps being started
\* ends (property EventuallyTerminal of module RunLifecycle).
Fairness ==
  /\ \A c \in Consumers :
       /\ WF_vars(ConsumerLists(c)) /\ WF_vars(ConsumerChecks(c)) /\ WF_vars(ConsumerCommits(c))
  /\ \A e \in Events : SF_vars(\E c \in Consumers : ConsumerLoads(c, e))
  /\ \A j \in Jobs : WF_vars(CancelCommits(j)) /\ WF_vars(CreateCommits(j))
  /\ \A j \in Jobs, k \in Ticks :
       /\ WF_vars(RunStarts(j, k))
       /\ SF_vars(\E s \in {"SUCCEEDED", "FAILED"} : RunEnds(j, k, s))

LiveSpec == Spec /\ Fairness
----------------------------------------------------------------------------
(* Properties *)

\* No job is at the end of a chain of more than MAX_CHAIN_DEPTH jobs, itself
\* included: the bounded ancestor walk never undercounts.
DepthBounded ==
  \A j \in Jobs : jobState[j] # "absent" => 1 + Cardinality(Upstream(j)) <= MaxDepth

\* The job or a job upstream of it has been cancelled.
Stopped(j) == \E x \in {j} \union Upstream(j) : jobState[x] = "cancelled"

\* At most one executing run per job (ADR-065, decision 4), whatever two
\* consumers, a cancel and the workers do at the same time.  A cancelled job is
\* exempt: its overwritten run may come back as RETRYING.
OneExecutingRun ==
  \A j \in Jobs : jobState[j] # "cancelled" =>
    \A k1, k2 \in Ticks :
      runs[j][k1] \in Executing /\ runs[j][k2] \in Executing => k1 = k2

\* A run is inserted once: an event handled twice, or by two consumers, never
\* brings back a run that has ended.
CreatedOnce ==
  [][\A j \in Jobs, k \in Ticks :
       runs[j][k] \in Terminal /\ ~Stopped(j) => runs'[j][k] \in Terminal]_vars

\* An active recurring job has a run under way or an event the consumer has
\* still to handle: no crash, drop or duplicate wedges the recurrence.
RecurrenceAlive ==
  \A j \in Recurring : jobState[j] = "active" =>
    HasExecutingRun(j) \/ \E e \in pending : e[1] = j

\* A chained job whose trigger is over is not left active with nothing to come:
\* it has a run under way, or its own or its trigger's event is still to be
\* handled (and will settle it).
NotStranded ==
  \A j \in Jobs :
    /\ jobState[j] = "active" /\ Trigger[j] # NoJob
    /\ jobState[Trigger[j]] \in {"completed", "cancelled"}
    => HasExecutingRun(j) \/ \E e \in pending : e[1] \in {j, Trigger[j]}

\* A job is completed only when its schedule is exhausted: it has no executing
\* run and its trigger can fire no more.
SettledExhausted ==
  \A j \in Jobs :
    jobState[j] = "completed" /\ ~Stopped(j) =>
      /\ ~HasExecutingRun(j)
      /\ Trigger[j] # NoJob => jobState[Trigger[j]] = "completed"

\* Every handled terminal event whose status satisfies a downstream job's
\* trigger_on_status has led to a run of that job or to an audited drop.
TriggerAccounted ==
  \A d \in Existing, k \in Ticks, s \in {"SUCCEEDED", "FAILED"} :
    /\ Trigger[d] # NoJob /\ ~Stopped(d) /\ TriggersOn(d, s)
    /\ runs[Trigger[d]][k] = s /\ <<Trigger[d], k, s>> \notin pending
    => runs[d][k] # "none" \/ <<d, k>> \in dropped

\* Every job of a pipeline that starts with a one-shot job leaves the active
\* state, and with it the user's quota, in the end.  (A job that is added while
\* its trigger is being settled need not: see NotStranded.)
AllSettle ==
  \A j \in Existing : <>[](jobState[j] # "active")
=============================================================================
