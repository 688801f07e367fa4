--------------------------- MODULE RunLifecycle ---------------------------
(***************************************************************************)
(* The execution plane: how one job_runs row travels from PENDING to a     *)
(* terminal status.  Watcher, SQS queue, workers, reconciler and           *)
(* task.cancel all write the row; nothing but the row and the queue        *)
(* connects them.                                                          *)
(*                                                                         *)
(* Every run r stands for a run of a job of its own, so jobState[r] is the *)
(* state of r's job.  Several runs of one job are the subject of module    *)
(* Continuation.                                                           *)
(*                                                                         *)
(* One action is one committed database transaction or one SQS call.  A    *)
(* process may stop between two of its actions; it never stops inside one, *)
(* since a transaction that does not commit leaves no trace.               *)
(***************************************************************************)
EXTENDS Integers, Sequences, FiniteSets

CONSTANTS
  Runs,         \* job_runs rows
  Workers,      \* worker processes (run_worker)
  Watchers,     \* watcher processes (run_watcher)
  Reconcilers,  \* reconciler processes (run_reconciler)
  Msgs,         \* slots for the SQS messages that exist at one time (a bound)
  NoRun,        \* "no run", for an idle worker and a free slot
  NoMsg,        \* "no message", for an idle worker
  Idempotent,   \* runs whose action is registered, with idempotent=True
  BadAction,    \* runs whose action is unknown or whose params do not validate
  OneShot,      \* runs whose job is immediate/one-shot (not recurring, not chained)
  BatchSize,    \* watcher batch limit
  MaxReceive,   \* maxReceiveCount of the queue's redrive policy
  Grace,        \* running_grace in heartbeat intervals (180s / 30s in production)
  MaxMissed,    \* heartbeat intervals a live worker's lease may fall behind
  MaxCrashes    \* bound on the number of worker deaths

ASSUME ConstantAssumption ==
  /\ NoRun \notin Runs
  /\ NoMsg \notin Msgs
  /\ Watchers \intersect Reconcilers = {}
  /\ Idempotent \subseteq Runs
  /\ BadAction \subseteq Runs
  /\ OneShot \subseteq Runs
  /\ BatchSize \in Nat \ {0}
  /\ MaxReceive \in Nat \ {0}
  /\ Grace \in Nat \ {0}
  /\ MaxMissed \in Nat
  /\ MaxCrashes \in Nat

\* The calibration of reconciler_running_grace_seconds: the grace window is
\* longer than a live worker's worst-case lease staleness.
LeaseCalibrated == MaxMissed < Grace

VARIABLES
  status,      \* job_runs.status
  stale,       \* job_runs.updated_at is older than the sweep's grace window
  lease,       \* heartbeat intervals since job_runs.heartbeat_at, up to Grace
  when,        \* where scheduled_at lies: beyond the lookahead, inside it, past
  announced,   \* terminal run_events of the run, in event_id order
  jobState,    \* jobs.state of the run's job
  cancelRead,  \* status an open cancel transaction has read, or "none"
  msgRun,      \* the run an SQS message is about
  msgState,    \* whether it is free (no message), delayed, visible or in flight
  msgCount,    \* its receive count
  unsent,      \* per process: runs committed as QUEUED whose message is not yet sent
  pc,          \* what each worker is doing
  wRun,        \* the run of the message it received
  wMsg,        \* the message
  wCount,      \* the receive count that identifies its receipt handle
  crashes,     \* worker deaths so far (bounded by MaxCrashes)
  interrupted, \* history: runs whose worker died after it began to execute them
  spared       \* history: runs a cancel found, or left, RUNNING

rowVars    == <<status, stale, lease, when, announced>>
cancelVars == <<jobState, cancelRead, spared>>
histVars   == <<crashes, interrupted>>
queueVars  == <<msgRun, msgState, msgCount>>
workerVars == <<pc, wRun, wMsg, wCount>>
vars == <<status, stale, lease, when, announced, jobState, cancelRead, spared,
          msgRun, msgState, msgCount, unsent, pc, wRun, wMsg, wCount,
          crashes, interrupted>>

----------------------------------------------------------------------------
(* Values *)

Claimable == {"PENDING", "QUEUED", "RETRYING"}
Terminal  == {"SUCCEEDED", "FAILED", "CANCELLED"}
Status    == Claimable \union {"RUNNING"} \union Terminal

Senders == Watchers \union Reconcilers

\* Program points at which a worker owns the run it claimed.
Holding   == {"rejected", "executing", "succeeded", "failed", "retryable"}
\* Program points after which the action may have had its external effect.
Executed  == {"executing", "succeeded", "failed", "retryable"}

TypeOK ==
  /\ status \in [Runs -> Status]
  /\ stale \in [Runs -> BOOLEAN]
  /\ lease \in [Runs -> 0 .. Grace]
  /\ when \in [Runs -> {"far", "near", "due"}]
  /\ announced \in [Runs -> Seq(Terminal)]
  /\ jobState \in [Runs -> {"active", "completed", "cancelled"}]
  /\ cancelRead \in [Runs -> Status \union {"none"}]
  /\ msgRun \in [Msgs -> Runs \union {NoRun}]
  /\ msgState \in [Msgs -> {"free", "delayed", "visible", "inflight"}]
  /\ msgCount \in [Msgs -> 0 .. MaxReceive]
  /\ unsent \in [Senders -> SUBSET Runs]
  /\ pc \in [Workers -> {"idle", "received", "deleting"} \union Holding]
  /\ wRun \in [Workers -> Runs \union {NoRun}]
  /\ wMsg \in [Workers -> Msgs \union {NoMsg}]
  /\ wCount \in [Workers -> 0 .. MaxReceive]
  /\ crashes \in Nat
  /\ interrupted \subseteq Runs
  /\ spared \subseteq Runs

\* A run freshly inserted by materialize_initial: PENDING, no lease yet.
Init ==
  /\ status = [r \in Runs |-> "PENDING"]
  /\ stale = [r \in Runs |-> FALSE]
  /\ lease = [r \in Runs |-> Grace]
  /\ when \in [Runs -> {"far", "near", "due"}]
  /\ announced = [r \in Runs |-> << >>]
  /\ jobState = [r \in Runs |-> "active"]
  /\ cancelRead = [r \in Runs |-> "none"]
  /\ msgRun = [m \in Msgs |-> NoRun]
  /\ msgState = [m \in Msgs |-> "free"]
  /\ msgCount = [m \in Msgs |-> 0]
  /\ unsent = [p \in Senders |-> {}]
  /\ pc = [w \in Workers |-> "idle"]
  /\ wRun = [w \in Workers |-> NoRun]
  /\ wMsg = [w \in Workers |-> NoMsg]
  /\ wCount = [w \in Workers |-> 0]
  /\ crashes = 0
  /\ interrupted = {}
  /\ spared = {}

----------------------------------------------------------------------------
(* Helpers *)

Holds(w, r) == wRun[w] = r /\ pc[w] \in Holding
Held(r) == \E w \in Workers : Holds(w, r)

\* A write of job_runs.status together with updated_at.
WriteStatus(r, s) ==
  /\ status' = [status EXCEPT ![r] = s]
  /\ stale' = [stale EXCEPT ![r] = FALSE]

\* RunEvent(event_type = s) for a terminal s, in the same transaction.
Announce(r, s) == announced' = [announced EXCEPT ![r] = Append(@, s)]

\* Faulty variant of SettleJob: no compare-and-set on state = 'active'.
SettleJobNoCas(r) ==
  jobState' = [jobState EXCEPT ![r] = IF r \in OneShot THEN "completed" ELSE @]

\* settle_job: CAS active -> completed, one-shot jobs only.  The UPDATE waits
\* for the row lock of an open cancel transaction on the same job.
SettleJob(r) ==
  /\ r \in OneShot => cancelRead[r] = "none"
  /\ jobState' = [jobState EXCEPT ![r] =
                    IF @ = "active" /\ r \in OneShot THEN "completed" ELSE @]

\* send_message_batch of one entry into a slot nobody refers to.
Send(r, st) ==
  \E m \in Msgs :
    /\ msgState[m] = "free"
    /\ \A w \in Workers : wMsg[w] # m
    /\ msgRun' = [msgRun EXCEPT ![m] = r]
    /\ msgState' = [msgState EXCEPT ![m] = st]
    /\ msgCount' = [msgCount EXCEPT ![m] = 0]

\* The message leaves the queue and its slot becomes free.
Remove(m) ==
  /\ msgRun' = [msgRun EXCEPT ![m] = NoRun]
  /\ msgState' = [msgState EXCEPT ![m] = "free"]
  /\ msgCount' = [msgCount EXCEPT ![m] = 0]

\* The worker's loop goes back to receive_messages.
Release(w) ==
  /\ pc' = [pc EXCEPT ![w] = "idle"]
  /\ wRun' = [wRun EXCEPT ![w] = NoRun]
  /\ wMsg' = [wMsg EXCEPT ![w] = NoMsg]
  /\ wCount' = [wCount EXCEPT ![w] = 0]

----------------------------------------------------------------------------
(* Time *)

\* The clock approaches scheduled_at: now + LOOKAHEAD passes it, then now does.
TimePasses(r) ==
  /\ when[r] # "due"
  /\ when' = [when EXCEPT ![r] = IF @ = "far" THEN "near" ELSE "due"]
  /\ UNCHANGED <<status, stale, lease, announced, cancelVars, queueVars, unsent, workerVars, histVars>>

\* updated_at falls behind the grace window of the sweep that looks at the row.
RowAges(r) ==
  /\ status[r] \in {"QUEUED", "RETRYING"} /\ ~stale[r]
  /\ stale' = [stale EXCEPT ![r] = TRUE]
  /\ UNCHANGED <<status, lease, when, announced, cancelVars, queueVars, unsent, workerVars, histVars>>

\* One more heartbeat interval passes without a bump of heartbeat_at.  A live
\* worker lets its lease fall behind by MaxMissed intervals at most.
LeaseAges(r) ==
  /\ status[r] = "RUNNING" /\ lease[r] < Grace
  /\ Held(r) => lease[r] < MaxMissed
  /\ lease' = [lease EXCEPT ![r] = @ + 1]
  /\ UNCHANGED <<status, stale, when, announced, cancelVars, queueVars, unsent, workerVars, histVars>>

----------------------------------------------------------------------------
(* Watcher: claim_and_publish *)

\* One transaction: PENDING rows inside the lookahead window become QUEUED.
WatcherClaim(p, S) ==
  /\ unsent[p] = {}
  /\ S # {} /\ Cardinality(S) <= BatchSize
  /\ \A r \in S : status[r] = "PENDING" /\ when[r] # "far"
  /\ status' = [r \in Runs |-> IF r \in S THEN "QUEUED" ELSE status[r]]
  /\ stale' = [r \in Runs |-> IF r \in S THEN FALSE ELSE stale[r]]
  /\ unsent' = [unsent EXCEPT ![p] = S]
  /\ UNCHANGED <<lease, when, announced, cancelVars, queueVars, workerVars, histVars>>

\* After the commit: the batch's entries reach SQS, with DelaySeconds up to
\* scheduled_at.  (The reconciler's re-enqueue has DelaySeconds = 0.)
WatcherPublish(p, r) ==
  /\ r \in unsent[p]
  /\ Send(r, IF when[r] = "due" THEN "visible" ELSE "delayed")
  /\ unsent' = [unsent EXCEPT ![p] = @ \ {r}]
  /\ UNCHANGED <<rowVars, cancelVars, workerVars, histVars>>

\* The send raises, the entry comes back under Failed, or the process dies
\* between its commit and its send: the rows stay QUEUED.
SendLost(p, S) ==
  /\ S # {} /\ S \subseteq unsent[p]
  /\ unsent' = [unsent EXCEPT ![p] = @ \ S]
  /\ UNCHANGED <<rowVars, cancelVars, queueVars, workerVars, histVars>>

----------------------------------------------------------------------------
(* SQS, as app/queue/sqs.py uses it *)

\* DelaySeconds has elapsed.
MessageDue(m) ==
  /\ msgState[m] = "delayed"
  /\ when[msgRun[m]] = "due"
  /\ msgState' = [msgState EXCEPT ![m] = "visible"]
  /\ UNCHANGED <<msgRun, msgCount, rowVars, cancelVars, unsent, workerVars, histVars>>

\* The visibility timeout ends while the message is neither deleted nor
\* extended: the worker is gone, or its change_message_visibility calls fail.
VisibilityExpires(m) ==
  /\ msgState[m] = "inflight"
  /\ msgState' = [msgState EXCEPT ![m] = "visible"]
  /\ UNCHANGED <<msgRun, msgCount, rowVars, cancelVars, unsent, workerVars, histVars>>

\* Redrive: a message received MaxReceive times goes to the dead-letter queue,
\* which nothing reads.
DeadLetter(m) ==
  /\ msgState[m] = "visible" /\ msgCount[m] = MaxReceive
  /\ Remove(m)
  /\ UNCHANGED <<rowVars, cancelVars, unsent, workerVars, histVars>>

----------------------------------------------------------------------------
(* Worker: run_worker, process_one, _dispatch *)

Receive(w, m) ==
  /\ pc[w] = "idle"
  /\ msgState[m] = "visible" /\ msgCount[m] < MaxReceive
  /\ msgState' = [msgState EXCEPT ![m] = "inflight"]
  /\ msgCount' = [msgCount EXCEPT ![m] = @ + 1]
  /\ pc' = [pc EXCEPT ![w] = "received"]
  /\ wRun' = [wRun EXCEPT ![w] = msgRun[m]]
  /\ wMsg' = [wMsg EXCEPT ![w] = m]
  /\ wCount' = [wCount EXCEPT ![w] = msgCount[m] + 1]
  /\ UNCHANGED <<msgRun, rowVars, cancelVars, unsent, histVars>>

\* Faulty variant of ClaimWon: the UPDATE's status list also names RUNNING.
ClaimWonRunning(w) ==
  LET r == wRun[w] IN
  /\ pc[w] = "received"
  /\ status[r] \in Claimable \union {"RUNNING"}
  /\ WriteStatus(r, "RUNNING")
  /\ lease' = [lease EXCEPT ![r] = 0]
  /\ pc' = [pc EXCEPT ![w] = IF r \in BadAction THEN "rejected" ELSE "executing"]
  /\ UNCHANGED <<when, announced, cancelVars, queueVars, unsent, wRun, wMsg, wCount,
                 histVars>>

\* Faulty variant of ClaimWon: the UPDATE only leaves out RUNNING.
ClaimWonTerminal(w) ==
  LET r == wRun[w] IN
  /\ pc[w] = "received"
  /\ status[r] # "RUNNING"
  /\ WriteStatus(r, "RUNNING")
  /\ lease' = [lease EXCEPT ![r] = 0]
  /\ pc' = [pc EXCEPT ![w] = IF r \in BadAction THEN "rejected" ELSE "executing"]
  /\ UNCHANGED <<when, announced, cancelVars, queueVars, unsent, wRun, wMsg, wCount,
                 histVars>>

\* Faulty variant of ClaimWon: heartbeat_at is not set at the claim.
ClaimWonNoLease(w) ==
  LET r == wRun[w] IN
  /\ pc[w] = "received"
  /\ status[r] \in Claimable
  /\ WriteStatus(r, "RUNNING")
  /\ pc' = [pc EXCEPT ![w] = IF r \in BadAction THEN "rejected" ELSE "executing"]
  /\ UNCHANGED <<lease, when, announced, cancelVars, queueVars, unsent, wRun, wMsg, wCount,
                 histVars>>

\* _claim: UPDATE ... SET status='RUNNING', heartbeat_at=now WHERE status IN
\* (PENDING, QUEUED, RETRYING).  A run whose action is unknown or whose params
\* do not validate goes straight to _write_permanent_failure.
ClaimWon(w) ==
  LET r == wRun[w] IN
  /\ pc[w] = "received"
  /\ status[r] \in Claimable
  /\ WriteStatus(r, "RUNNING")
  /\ lease' = [lease EXCEPT ![r] = 0]
  /\ pc' = [pc EXCEPT ![w] = IF r \in BadAction THEN "rejected" ELSE "executing"]
  /\ UNCHANGED <<when, announced, cancelVars, queueVars, unsent, wRun, wMsg, wCount,
                 histVars>>

\* The UPDATE matches no row: the message is deleted as already processed.
ClaimLost(w) ==
  /\ pc[w] = "received"
  /\ status[wRun[w]] \notin Claimable
  /\ pc' = [pc EXCEPT ![w] = "deleting"]
  /\ UNCHANGED <<rowVars, cancelVars, queueVars, unsent, wRun, wMsg, wCount, histVars>>

\* _bump_heartbeat_at: a tick of the heartbeat loop reaches the database.
Heartbeat(w) ==
  /\ pc[w] = "executing"
  /\ lease' = [lease EXCEPT ![wRun[w]] = 0]
  /\ UNCHANGED <<status, stale, when, announced, cancelVars, queueVars, unsent, workerVars, histVars>>

\* handler.execute returns, times out or raises.
Finish(w) ==
  /\ pc[w] = "executing"
  /\ \E outcome \in {"succeeded", "failed", "retryable"} :
       pc' = [pc EXCEPT ![w] = outcome]
  /\ UNCHANGED <<rowVars, cancelVars, queueVars, unsent, wRun, wMsg, wCount, histVars>>

\* _write_terminal and _write_permanent_failure: by run_id, whatever the
\* row's status is by now.
WriteTerminal(w) ==
  LET r == wRun[w]
      s == IF pc[w] = "succeeded" THEN "SUCCEEDED" ELSE "FAILED" IN
  /\ pc[w] \in {"succeeded", "failed", "rejected"}
  /\ WriteStatus(r, s)
  /\ Announce(r, s)
  /\ SettleJob(r)
  /\ pc' = [pc EXCEPT ![w] = "deleting"]
  /\ UNCHANGED <<lease, when, cancelRead, spared, queueVars, unsent, wRun, wMsg, wCount, histVars>>

\* _write_retrying: by run_id; the message is left to its visibility timeout.
WriteRetrying(w) ==
  /\ pc[w] = "retryable"
  /\ WriteStatus(wRun[w], "RETRYING")
  /\ Release(w)
  /\ UNCHANGED <<lease, when, announced, cancelVars, queueVars, unsent, histVars>>

\* delete_message.  The receipt handle of an earlier receive may or may not
\* delete a message that has been received again since.
DeleteMessage(w) ==
  LET m == wMsg[w] IN
  /\ pc[w] = "deleting"
  /\ \/ msgState[m] # "free" /\ Remove(m)
     \/ msgCount[m] # wCount[w] /\ UNCHANGED queueVars
  /\ Release(w)
  /\ UNCHANGED <<rowVars, cancelVars, unsent, histVars>>

\* The process is killed, or a transaction or SQS call raises out of
\* process_one.  Everything it did not commit is gone.
WorkerDies(w) ==
  /\ pc[w] # "idle"
  /\ crashes < MaxCrashes
  /\ crashes' = crashes + 1
  /\ interrupted' = IF pc[w] \in Executed
                    THEN interrupted \union {wRun[w]} ELSE interrupted
  /\ Release(w)
  /\ UNCHANGED <<rowVars, cancelVars, queueVars, unsent>>

----------------------------------------------------------------------------
(* Reconciler *)

\* Faulty variant of SweepDlqRetrying: the FAILED event is not written.
SweepDlqRetryingNoEvent(p, r) ==
  /\ unsent[p] = {}
  /\ status[r] = "RETRYING" /\ stale[r]
  /\ WriteStatus(r, "FAILED")
  /\ UNCHANGED <<lease, when, announced, cancelVars, queueVars, unsent, workerVars, histVars>>

\* Faulty variant of SweepDlqRetrying: the event names the status that was read.
SweepDlqRetryingReadStatus(p, r) ==
  /\ unsent[p] = {}
  /\ status[r] = "RETRYING" /\ stale[r]
  /\ WriteStatus(r, "FAILED")
  /\ Announce(r, status[r])
  /\ UNCHANGED <<lease, when, cancelVars, queueVars, unsent, workerVars, histVars>>

\* Sweep A: a RETRYING row past the DLQ grace window is FAILED.  No
\* settle_job here: the continuation consumer settles the job.
SweepDlqRetrying(p, r) ==
  /\ unsent[p] = {}
  /\ status[r] = "RETRYING" /\ stale[r]
  /\ WriteStatus(r, "FAILED")
  /\ Announce(r, "FAILED")
  /\ UNCHANGED <<lease, when, cancelVars, queueVars, unsent, workerVars, histVars>>

\* Faulty variant of SweepQueuedStuck: without scheduled_at < now (issue #269).
SweepQueuedStuckEarly(p, r, committed) ==
  /\ unsent[p] = {}
  /\ status[r] = "QUEUED" /\ stale[r]
  /\ Send(r, "visible")
  /\ stale' = [stale EXCEPT ![r] = ~committed]
  /\ UNCHANGED <<status, lease, when, announced, cancelVars, unsent, workerVars, histVars>>

\* Sweep B: a past-due QUEUED row is sent again and its updated_at bumped.
\* The send precedes the commit: if the commit fails, or the process dies,
\* the message exists without the bump.  A send that raises changes nothing.
SweepQueuedStuck(p, r, committed) ==
  /\ unsent[p] = {}
  /\ status[r] = "QUEUED" /\ stale[r] /\ when[r] = "due"
  /\ Send(r, "visible")
  /\ stale' = [stale EXCEPT ![r] = ~committed]
  /\ UNCHANGED <<status, lease, when, announced, cancelVars, unsent, workerVars, histVars>>

\* Sweep B, when SQS reports the entry under Failed instead of raising: the
\* row is bumped and no message exists.
SweepQueuedLost(p, r) ==
  /\ unsent[p] = {}
  /\ status[r] = "QUEUED" /\ stale[r] /\ when[r] = "due"
  /\ stale' = [stale EXCEPT ![r] = FALSE]
  /\ UNCHANGED <<status, lease, when, announced, cancelVars, queueVars, unsent, workerVars,
                 histVars>>

\* Faulty variant of OrphanReset: an orphan is re-run whatever its action.
OrphanResetAlways(p, r) ==
  /\ unsent[p] = {}
  /\ status[r] = "RUNNING" /\ lease[r] = Grace
  /\ WriteStatus(r, "QUEUED")
  /\ unsent' = [unsent EXCEPT ![p] = {r}]
  /\ UNCHANGED <<lease, when, announced, cancelVars, queueVars, workerVars, histVars>>

\* Sweep C: a RUNNING row whose lease has expired.  An idempotent action is
\* reset to QUEUED, to be sent after the commit.
OrphanReset(p, r) ==
  /\ unsent[p] = {}
  /\ status[r] = "RUNNING" /\ lease[r] = Grace
  /\ r \in Idempotent
  /\ WriteStatus(r, "QUEUED")
  /\ unsent' = [unsent EXCEPT ![p] = {r}]
  /\ UNCHANGED <<lease, when, announced, cancelVars, queueVars, workerVars, histVars>>

\* Faulty variant of OrphanFailed: an orphan that is not idempotent is skipped.
OrphanFailedNever(p, r) ==
  /\ FALSE
  /\ UNCHANGED vars

\* Sweep C: any other orphan is FAILED and a one-shot job settled.
OrphanFailed(p, r) ==
  /\ unsent[p] = {}
  /\ status[r] = "RUNNING" /\ lease[r] = Grace
  /\ r \notin Idempotent
  /\ WriteStatus(r, "FAILED")
  /\ Announce(r, "FAILED")
  /\ SettleJob(r)
  /\ UNCHANGED <<lease, when, cancelRead, spared, queueVars, unsent, workerVars, histVars>>

SweepRunningOrphan(p, r) == OrphanReset(p, r) \/ OrphanFailed(p, r)

\* The re-enqueue after Sweep C's commit, with DelaySeconds = 0.
SweepPublish(p, r) ==
  /\ r \in unsent[p]
  /\ Send(r, "visible")
  /\ unsent' = [unsent EXCEPT ![p] = @ \ {r}]
  /\ UNCHANGED <<rowVars, cancelVars, workerVars, histVars>>

----------------------------------------------------------------------------
(* task.cancel: cancel_job *)

\* The CAS active -> cancelled takes the job's row lock, then the runs are
\* read.  Nothing is visible to others before the commit.
CancelRead(r) ==
  /\ jobState[r] = "active" /\ cancelRead[r] = "none"
  /\ cancelRead' = [cancelRead EXCEPT ![r] = status[r]]
  /\ UNCHANGED <<rowVars, jobState, spared, queueVars, unsent, workerVars, histVars>>

\* What a committed cancel remembers of the runs it met (history).
Spare(r) == spared' = IF "RUNNING" \in {cancelRead[r], status[r]}
                      THEN spared \union {r} ELSE spared

\* Faulty variant of CancelFlips: RETRYING is missing from the cancellable set.
CancelFlipsNotRetrying(r) ==
  /\ cancelRead[r] \in Claimable
  /\ \/ cancelRead[r] = "RETRYING" /\ UNCHANGED <<status, announced>>
     \/ /\ cancelRead[r] # "RETRYING"
        /\ status' = [status EXCEPT ![r] = "CANCELLED"]
        /\ Announce(r, "CANCELLED")
  /\ jobState' = [jobState EXCEPT ![r] = "cancelled"]
  /\ cancelRead' = [cancelRead EXCEPT ![r] = "none"]
  /\ Spare(r)
  /\ UNCHANGED <<stale, lease, when, queueVars, unsent, workerVars, histVars>>

\* The run's status WAS cancellable: set to CANCELLED by run_id, whatever it
\* is by now, and commit.
CancelFlips(r) ==
  /\ cancelRead[r] \in Claimable
  /\ status' = [status EXCEPT ![r] = "CANCELLED"]
  /\ Announce(r, "CANCELLED")
  /\ jobState' = [jobState EXCEPT ![r] = "cancelled"]
  /\ cancelRead' = [cancelRead EXCEPT ![r] = "none"]
  /\ Spare(r)
  /\ UNCHANGED <<stale, lease, when, queueVars, unsent, workerVars, histVars>>

\* The run's status was RUNNING or terminal: left alone, and commit.
CancelLeaves(r) ==
  /\ cancelRead[r] \in {"RUNNING"} \union Terminal
  /\ jobState' = [jobState EXCEPT ![r] = "cancelled"]
  /\ cancelRead' = [cancelRead EXCEPT ![r] = "none"]
  /\ Spare(r)
  /\ UNCHANGED <<rowVars, queueVars, unsent, workerVars, histVars>>

CancelCommit(r) == CancelFlips(r) \/ CancelLeaves(r)

----------------------------------------------------------------------------
Clock == \E r \in Runs : TimePasses(r) \/ RowAges(r) \/ LeaseAges(r)

WatcherStep(p) ==
  \/ \E S \in SUBSET Runs : WatcherClaim(p, S) \/ SendLost(p, S)
  \/ \E r \in Runs : WatcherPublish(p, r)

QueueStep == \E m \in Msgs : MessageDue(m) \/ VisibilityExpires(m) \/ DeadLetter(m)

\* The steps a worker owes; dying and beating are not among them.
WorkerStep(w) ==
  \/ \E m \in Msgs : Receive(w, m)
  \/ ClaimWon(w) \/ ClaimLost(w) \/ Finish(w) \/ WriteTerminal(w) \/ WriteRetrying(w) \/ DeleteMessage(w)

ReconcilerStep(p) ==
  \/ \E r \in Runs :
       \/ SweepDlqRetrying(p, r) \/ SweepRunningOrphan(p, r) \/ SweepPublish(p, r)
       \/ SweepQueuedLost(p, r)
       \/ \E committed \in BOOLEAN : SweepQueuedStuck(p, r, committed)
  \/ \E S \in SUBSET Runs : SendLost(p, S)

CancelStep == \E r \in Runs : CancelRead(r) \/ CancelCommit(r)

Next ==
  \/ Clock
  \/ \E p \in Watchers : WatcherStep(p)
  \/ QueueStep
  \/ \E w \in Workers : WorkerStep(w) \/ Heartbeat(w) \/ WorkerDies(w)
  \/ \E p \in Reconcilers : ReconcilerStep(p)
  \/ CancelStep

Spec == Init /\ [][Next]_vars

\* What the processes' loops guarantee: clocks advance, every loop comes
\* round, an open transaction ends, SQS redelivers, and SQS does not refuse
\* the re-enqueue of a stuck run for ever.
Fairness ==
  /\ \A r \in Runs :
       /\ WF_vars(TimePasses(r)) /\ WF_vars(RowAges(r)) /\ WF_vars(LeaseAges(r))
       /\ WF_vars(CancelCommit(r))
       /\ WF_vars(\E p \in Watchers, S \in SUBSET Runs : r \in S /\ WatcherClaim(p, S))
       /\ WF_vars(\E p \in Reconcilers : SweepDlqRetrying(p, r))
       /\ WF_vars(\E p \in Reconcilers : SweepRunningOrphan(p, r))
       /\ SF_vars(\E p \in Reconcilers : SweepQueuedStuck(p, r, TRUE))
  /\ \A p \in Watchers :
       WF_vars(\E r \in Runs : WatcherPublish(p, r) \/ SendLost(p, {r}))
  /\ \A p \in Reconcilers :
       WF_vars(\E r \in Runs : SweepPublish(p, r) \/ SendLost(p, {r}))
  /\ \A w \in Workers : WF_vars(WorkerStep(w))
  /\ \A m \in Msgs :
       WF_vars(MessageDue(m)) /\ WF_vars(VisibilityExpires(m)) /\ WF_vars(DeadLetter(m))

LiveSpec == Spec /\ Fairness
----------------------------------------------------------------------------
(* Properties.  Those marked (lease) need LeaseCalibrated. *)

\* (lease) Two workers never execute the same run at the same time, whatever
\* is redelivered, re-enqueued, swept or cancelled in between: the claim's
\* status guard and the heartbeat lease together are a lock.
ExclusiveExecution ==
  \A w1, w2 \in Workers :
    \A r \in Runs : Holds(w1, r) /\ Holds(w2, r) => w1 = w2

\* A run is not executed before its scheduled_at (up to the truncation of
\* DelaySeconds to whole seconds): neither the lookahead publish nor a sweep's
\* DelaySeconds=0 re-enqueue gets a future run to a worker.
NoEarlyDispatch ==
  \A r \in Runs : Held(r) => when[r] = "due"

\* (lease) Sweep C touches a row only when no live worker executes it, so
\* every row it resets or fails is a true orphan.
OnlyOrphansSwept ==
  [][\A p \in Reconcilers, r \in Runs : SweepRunningOrphan(p, r) => ~Held(r)]_vars

\* (lease) The status the terminal event announced stays: only the run of a
\* cancelled job can leave a terminal status.
TerminalFinal ==
  [][\A r \in Runs : status[r] \in Terminal /\ status'[r] # status[r]
        => jobState'[r] = "cancelled"]_vars

\* (lease) A run whose action is not idempotent is never started again once a
\* worker died while executing it: redelivery, Sweep B and Sweep C all leave
\* it alone, for its external effect may have happened.
InterruptedNotRerun ==
  [][\A r \in interrupted \ Idempotent :
        status'[r] = "RUNNING" => status[r] = "RUNNING"]_vars

\* (lease) After a cancel has committed, a run starts only if the cancel found
\* it RUNNING (and it was then retried or recovered).
CancelStopsDispatch ==
  [][\A r \in Runs \ spared :
        jobState[r] = "cancelled" /\ status'[r] = "RUNNING" => status[r] = "RUNNING"]_vars

\* (lease) The consumer sees exactly one terminal event per terminal run and
\* none before, except for a run whose job was cancelled under it.
OneTerminalEvent ==
  \A r \in Runs :
    \/ jobState[r] = "cancelled"
    \/ announced[r] = IF status[r] \in Terminal THEN <<status[r]>> ELSE << >>

\* A cancel leaves a RUNNING run alone (ADR-022, decision 1).
RunningLeftUntouched ==
  [][\A r \in Runs : CancelCommit(r) /\ status[r] = "RUNNING"
        => status'[r] = "RUNNING"]_vars

\* Whatever crashes, fails to send or expires, every run ends in a terminal
\* status and stays there: no wedged run keeps its job's slot.
EventuallyTerminal == \A r \in Runs : <>[](status[r] \in Terminal)

\* (lease) The execution plane implements the contract.
Contract == INSTANCE RunContract WITH
  Runs <- Runs,
  OneShot <- OneShot,
  status <- status,
  jobState <- jobState
ImplementsContract == Contract!ContractSpec
=============================================================================
