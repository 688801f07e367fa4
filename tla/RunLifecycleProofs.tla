------------------------ MODULE RunLifecycleProofs ------------------------
(***************************************************************************)
(* Proofs about RunLifecycle, for any number of runs, workers, watchers,   *)
(* reconcilers and messages.                                               *)
(***************************************************************************)
EXTENDS RunLifecycle, TLAPS

----------------------------------------------------------------------------
(* The inductive invariant, part by part *)

\* A message in the queue is of some run, and a worker that is not idle has
\* one in its hands.
Addressed ==
  /\ \A m \in Msgs : msgState[m] # "free" => msgRun[m] \in Runs
  /\ \A w \in Workers : pc[w] # "idle"
                          => wRun[w] \in Runs /\ wMsg[w] \in Msgs

\* A held run is RUNNING under a lease that has not expired, or a cancel has
\* overwritten it.
HeldRow ==
  \A w \in Workers : pc[w] \in Holding =>
    /\ status[wRun[w]] \in {"RUNNING", "CANCELLED"}
    /\ lease[wRun[w]] <= MaxMissed

\* Only a job cancel writes CANCELLED, and an open cancel finds the job active.
CancelledRow ==
  \A r \in Runs :
    /\ status[r] = "CANCELLED" => jobState[r] = "cancelled"
    /\ cancelRead[r] # "none" => jobState[r] = "active"
    /\ cancelRead[r] \in Terminal => status[r] \in Terminal

\* What is left of a non-idempotent run whose worker died.
InterruptedRow ==
  \A r \in interrupted \ Idempotent :
    status[r] \in {"RUNNING", "FAILED", "CANCELLED"} /\ ~Held(r)

\* A cancelled job whose run was not RUNNING at the cancel has ended.
UnsparedRow ==
  \A r \in Runs \ spared :
    jobState[r] = "cancelled" => status[r] \in Terminal /\ ~Held(r)

Core ==
  /\ HeldRow
  /\ ExclusiveExecution
  /\ CancelledRow
  /\ InterruptedRow
  /\ UnsparedRow
  /\ OneTerminalEvent

\* The inductive invariant of the lease-dependent theorems.
IInv == TypeOK /\ Addressed /\ Core

\* Why nothing reaches a worker early: only what is due is visible.
DueInv ==
  /\ \A m \in Msgs : msgState[m] \in {"visible", "inflight"} => when[msgRun[m]] = "due"
  /\ \A w \in Workers : pc[w] # "idle" => when[wRun[w]] = "due"
  /\ \A p \in Reconcilers : \A r \in unsent[p] : when[r] = "due"
  /\ \A r \in Runs : status[r] = "RUNNING" => when[r] = "due"

----------------------------------------------------------------------------
(* Types *)

LEMMA TypeInit == Init => TypeOK /\ Addressed
  BY ConstantAssumption
     DEF Init, TypeOK, Addressed, Status, Claimable, Terminal, Holding, Senders

LEMMA TypeStep == TypeOK /\ Addressed /\ [Next]_vars => TypeOK'
  <1> SUFFICES ASSUME TypeOK, Addressed, [Next]_vars PROVE TypeOK'
    OBVIOUS
  <1>0. CASE UNCHANGED vars
    BY <1>0, ConstantAssumption DEF vars, Addressed, TypeOK, Status, Claimable,
         Terminal, Holding, Senders
  <1>1. ASSUME NEW r \in Runs, TimePasses(r)
         PROVE  TypeOK'
    BY <1>1, ConstantAssumption DEF TimePasses, rowVars, cancelVars, queueVars,
         workerVars, histVars, Addressed, TypeOK, Status, Claimable, Terminal,
         Holding, Senders
  <1>2. ASSUME NEW r \in Runs, RowAges(r)
         PROVE  TypeOK'
    BY <1>2, ConstantAssumption DEF RowAges, rowVars, cancelVars, queueVars,
         workerVars, histVars, Addressed, TypeOK, Status, Claimable, Terminal,
         Holding, Senders
  <1>3. ASSUME NEW r \in Runs, LeaseAges(r)
         PROVE  TypeOK'
    BY <1>3, ConstantAssumption DEF LeaseAges, rowVars, cancelVars, queueVars,
         workerVars, histVars, Addressed, TypeOK, Status, Claimable, Terminal,
         Holding, Senders
  <1>4. ASSUME NEW p \in Watchers, NEW S \in SUBSET Runs, WatcherClaim(p, S)
         PROVE  TypeOK'
    BY <1>4, ConstantAssumption DEF WatcherClaim, rowVars, cancelVars, queueVars,
         workerVars, histVars, Addressed, TypeOK, Status, Claimable, Terminal,
         Holding, Senders
  <1>5. ASSUME NEW p \in Watchers, NEW r \in Runs, WatcherPublish(p, r)
         PROVE  TypeOK'
    BY <1>5, ConstantAssumption DEF WatcherPublish, Send, rowVars, cancelVars,
         queueVars, workerVars, histVars, Addressed, TypeOK, Status, Claimable,
         Terminal, Holding, Senders
  <1>6. ASSUME NEW p \in Senders, NEW S \in SUBSET Runs, SendLost(p, S)
         PROVE  TypeOK'
    BY <1>6, ConstantAssumption DEF SendLost, rowVars, cancelVars, queueVars,
         workerVars, histVars, Addressed, TypeOK, Status, Claimable, Terminal,
         Holding, Senders
  <1>7. ASSUME NEW m \in Msgs, MessageDue(m)
         PROVE  TypeOK'
    BY <1>7, ConstantAssumption DEF MessageDue, rowVars, cancelVars, queueVars,
         workerVars, histVars, Addressed, TypeOK, Status, Claimable, Terminal,
         Holding, Senders
  <1>8. ASSUME NEW m \in Msgs, VisibilityExpires(m)
         PROVE  TypeOK'
    BY <1>8, ConstantAssumption DEF VisibilityExpires, rowVars, cancelVars,
         queueVars, workerVars, histVars, Addressed, TypeOK, Status, Claimable,
         Terminal, Holding, Senders
  <1>9. ASSUME NEW m \in Msgs, DeadLetter(m)
         PROVE  TypeOK'
    BY <1>9, ConstantAssumption DEF DeadLetter, Remove, rowVars, cancelVars,
         queueVars, workerVars, histVars, Addressed, TypeOK, Status, Claimable,
         Terminal, Holding, Senders
  <1>10. ASSUME NEW w \in Workers, NEW m \in Msgs, Receive(w, m)
         PROVE  TypeOK'
    BY <1>10, ConstantAssumption DEF Receive, rowVars, cancelVars, queueVars,
         workerVars, histVars, Addressed, TypeOK, Status, Claimable, Terminal,
         Holding, Senders
  <1>11. ASSUME NEW w \in Workers, ClaimWon(w)
         PROVE  TypeOK'
    BY <1>11, ConstantAssumption DEF ClaimWon, WriteStatus, rowVars, cancelVars,
         queueVars, workerVars, histVars, Addressed, TypeOK, Status, Claimable,
         Terminal, Holding, Senders
  <1>12. ASSUME NEW w \in Workers, ClaimLost(w)
         PROVE  TypeOK'
    BY <1>12, ConstantAssumption DEF ClaimLost, rowVars, cancelVars, queueVars,
         workerVars, histVars, Addressed, TypeOK, Status, Claimable, Terminal,
         Holding, Senders
  <1>13. ASSUME NEW w \in Workers, Heartbeat(w)
         PROVE  TypeOK'
    BY <1>13, ConstantAssumption DEF Heartbeat, rowVars, cancelVars, queueVars,
         workerVars, histVars, Addressed, TypeOK, Status, Claimable, Terminal,
         Holding, Senders
  <1>14. ASSUME NEW w \in Workers, Finish(w)
         PROVE  TypeOK'
    BY <1>14, ConstantAssumption DEF Finish, rowVars, cancelVars, queueVars,
         workerVars, histVars, Addressed, TypeOK, Status, Claimable, Terminal,
         Holding, Senders
  <1>15. ASSUME NEW w \in Workers, WriteTerminal(w)
         PROVE  TypeOK'
    BY <1>15, ConstantAssumption DEF WriteTerminal, WriteStatus, Announce,
         SettleJob, rowVars, cancelVars, queueVars, workerVars, histVars, Addressed,
         TypeOK, Status, Claimable, Terminal, Holding, Senders
  <1>16. ASSUME NEW w \in Workers, WriteRetrying(w)
         PROVE  TypeOK'
    BY <1>16, ConstantAssumption DEF WriteRetrying, WriteStatus, Release, rowVars,
         cancelVars, queueVars, workerVars, histVars, Addressed, TypeOK, Status,
         Claimable, Terminal, Holding, Senders
  <1>17. ASSUME NEW w \in Workers, DeleteMessage(w)
         PROVE  TypeOK'
    <2>1. CASE Remove(wMsg[w])
      BY <1>17, <2>1, ConstantAssumption DEF DeleteMessage, Remove, Release,
           rowVars, cancelVars, queueVars, workerVars, histVars, Addressed, TypeOK,
           Status, Claimable, Terminal, Holding, Senders
    <2>2. CASE UNCHANGED queueVars
      BY <1>17, <2>2, ConstantAssumption DEF DeleteMessage, Remove, Release,
           rowVars, cancelVars, queueVars, workerVars, histVars, Addressed, TypeOK,
           Status, Claimable, Terminal, Holding, Senders
    <2>q. QED
      BY <1>17, <2>1, <2>2 DEF DeleteMessage
  <1>18. ASSUME NEW w \in Workers, WorkerDies(w)
         PROVE  TypeOK'
    BY <1>18, ConstantAssumption DEF WorkerDies, Release, rowVars, cancelVars,
         queueVars, workerVars, histVars, Addressed, TypeOK, Status, Claimable,
         Terminal, Holding, Senders
  <1>19. ASSUME NEW p \in Reconcilers, NEW r \in Runs, SweepDlqRetrying(p, r)
         PROVE  TypeOK'
    BY <1>19, ConstantAssumption DEF SweepDlqRetrying, WriteStatus, Announce,
         rowVars, cancelVars, queueVars, workerVars, histVars, Addressed, TypeOK,
         Status, Claimable, Terminal, Holding, Senders
  <1>20. ASSUME NEW p \in Reconcilers, NEW r \in Runs, NEW committed \in BOOLEAN,
                SweepQueuedStuck(p, r, committed)
         PROVE  TypeOK'
    BY <1>20, ConstantAssumption DEF SweepQueuedStuck, Send, rowVars, cancelVars,
         queueVars, workerVars, histVars, Addressed, TypeOK, Status, Claimable,
         Terminal, Holding, Senders
  <1>21. ASSUME NEW p \in Reconcilers, NEW r \in Runs, SweepQueuedLost(p, r)
         PROVE  TypeOK'
    BY <1>21, ConstantAssumption DEF SweepQueuedLost, rowVars, cancelVars,
         queueVars, workerVars, histVars, Addressed, TypeOK, Status, Claimable,
         Terminal, Holding, Senders
  <1>22. ASSUME NEW p \in Reconcilers, NEW r \in Runs, OrphanReset(p, r)
         PROVE  TypeOK'
    BY <1>22, ConstantAssumption DEF OrphanReset, WriteStatus, rowVars, cancelVars,
         queueVars, workerVars, histVars, Addressed, TypeOK, Status, Claimable,
         Terminal, Holding, Senders
  <1>23. ASSUME NEW p \in Reconcilers, NEW r \in Runs, OrphanFailed(p, r)
         PROVE  TypeOK'
    BY <1>23, ConstantAssumption DEF OrphanFailed, WriteStatus, Announce, SettleJob,
         rowVars, cancelVars, queueVars, workerVars, histVars, Addressed, TypeOK,
         Status, Claimable, Terminal, Holding, Senders
  <1>24. ASSUME NEW p \in Reconcilers, NEW r \in Runs, SweepPublish(p, r)
         PROVE  TypeOK'
    BY <1>24, ConstantAssumption DEF SweepPublish, Send, rowVars, cancelVars,
         queueVars, workerVars, histVars, Addressed, TypeOK, Status, Claimable,
         Terminal, Holding, Senders
  <1>25. ASSUME NEW r \in Runs, CancelRead(r)
         PROVE  TypeOK'
    BY <1>25, ConstantAssumption DEF CancelRead, rowVars, cancelVars, queueVars,
         workerVars, histVars, Addressed, TypeOK, Status, Claimable, Terminal,
         Holding, Senders
  <1>26. ASSUME NEW r \in Runs, CancelFlips(r)
         PROVE  TypeOK'
    BY <1>26, ConstantAssumption DEF CancelFlips, Announce, Spare, rowVars,
         cancelVars, queueVars, workerVars, histVars, Addressed, TypeOK, Status,
         Claimable, Terminal, Holding, Senders
  <1>27. ASSUME NEW r \in Runs, CancelLeaves(r)
         PROVE  TypeOK'
    BY <1>27, ConstantAssumption DEF CancelLeaves, Spare, rowVars, cancelVars,
         queueVars, workerVars, histVars, Addressed, TypeOK, Status, Claimable,
         Terminal, Holding, Senders
  <1>q. QED
    BY <1>0, <1>1, <1>2, <1>3, <1>4, <1>5, <1>6, <1>7, <1>8, <1>9, <1>10, <1>11,
         <1>12, <1>13, <1>14, <1>15, <1>16, <1>17, <1>18, <1>19, <1>20, <1>21,
         <1>22, <1>23, <1>24, <1>25, <1>26, <1>27 DEF Next, Clock, WatcherStep,
         QueueStep, WorkerStep, ReconcilerStep, SweepRunningOrphan, CancelStep,
         CancelCommit, Senders

LEMMA AddressedStep == TypeOK /\ Addressed /\ [Next]_vars => Addressed'
  <1> SUFFICES ASSUME TypeOK, Addressed, [Next]_vars PROVE Addressed'
    OBVIOUS
  <1>0. CASE UNCHANGED vars
    BY <1>0, ConstantAssumption DEF vars, Addressed, TypeOK, Senders
  <1>1. ASSUME NEW r \in Runs, TimePasses(r)
         PROVE  Addressed'
    BY <1>1, ConstantAssumption DEF TimePasses, rowVars, cancelVars, queueVars,
         workerVars, histVars, Addressed, TypeOK, Senders
  <1>2. ASSUME NEW r \in Runs, RowAges(r)
         PROVE  Addressed'
    BY <1>2, ConstantAssumption DEF RowAges, rowVars, cancelVars, queueVars,
         workerVars, histVars, Addressed, TypeOK, Senders
  <1>3. ASSUME NEW r \in Runs, LeaseAges(r)
         PROVE  Addressed'
    BY <1>3, ConstantAssumption DEF LeaseAges, rowVars, cancelVars, queueVars,
         workerVars, histVars, Addressed, TypeOK, Senders
  <1>4. ASSUME NEW p \in Watchers, NEW S \in SUBSET Runs, WatcherClaim(p, S)
         PROVE  Addressed'
    BY <1>4, ConstantAssumption DEF WatcherClaim, rowVars, cancelVars, queueVars,
         workerVars, histVars, Addressed, TypeOK, Senders
  <1>5. ASSUME NEW p \in Watchers, NEW r \in Runs, WatcherPublish(p, r)
         PROVE  Addressed'
    BY <1>5, ConstantAssumption DEF WatcherPublish, Send, rowVars, cancelVars,
         queueVars, workerVars, histVars, Addressed, TypeOK, Senders
  <1>6. ASSUME NEW p \in Senders, NEW S \in SUBSET Runs, SendLost(p, S)
         PROVE  Addressed'
    BY <1>6, ConstantAssumption DEF SendLost, rowVars, cancelVars, queueVars,
         workerVars, histVars, Addressed, TypeOK, Senders
  <1>7. ASSUME NEW m \in Msgs, MessageDue(m)
         PROVE  Addressed'
    BY <1>7, ConstantAssumption DEF MessageDue, rowVars, cancelVars, queueVars,
         workerVars, histVars, Addressed, TypeOK, Senders
  <1>8. ASSUME NEW m \in Msgs, VisibilityExpires(m)
         PROVE  Addressed'
    BY <1>8, ConstantAssumption DEF VisibilityExpires, rowVars, cancelVars,
         queueVars, workerVars, histVars, Addressed, TypeOK, Senders
  <1>9. ASSUME NEW m \in Msgs, DeadLetter(m)
         PROVE  Addressed'
    BY <1>9, ConstantAssumption DEF DeadLetter, Remove, rowVars, cancelVars,
         queueVars, workerVars, histVars, Addressed, TypeOK, Senders
  <1>10. ASSUME NEW w \in Workers, NEW m \in Msgs, Receive(w, m)
         PROVE  Addressed'
    BY <1>10, ConstantAssumption DEF Receive, rowVars, cancelVars, queueVars,
         workerVars, histVars, Addressed, TypeOK, Senders
  <1>11. ASSUME NEW w \in Workers, ClaimWon(w)
         PROVE  Addressed'
    BY <1>11, ConstantAssumption DEF ClaimWon, WriteStatus, rowVars, cancelVars,
         queueVars, workerVars, histVars, Addressed, TypeOK, Senders
  <1>12. ASSUME NEW w \in Workers, ClaimLost(w)
         PROVE  Addressed'
    BY <1>12, ConstantAssumption DEF ClaimLost, rowVars, cancelVars, queueVars,
         workerVars, histVars, Addressed, TypeOK, Senders
  <1>13. ASSUME NEW w \in Workers, Heartbeat(w)
         PROVE  Addressed'
    BY <1>13, ConstantAssumption DEF Heartbeat, rowVars, cancelVars, queueVars,
         workerVars, histVars, Addressed, TypeOK, Senders
  <1>14. ASSUME NEW w \in Workers, Finish(w)
         PROVE  Addressed'
    BY <1>14, ConstantAssumption DEF Finish, rowVars, cancelVars, queueVars,
         workerVars, histVars, Addressed, TypeOK, Senders
  <1>15. ASSUME NEW w \in Workers, WriteTerminal(w)
         PROVE  Addressed'
    BY <1>15, ConstantAssumption DEF WriteTerminal, WriteStatus, Announce,
         SettleJob, rowVars, cancelVars, queueVars, workerVars, histVars, Addressed,
         TypeOK, Senders
  <1>16. ASSUME NEW w \in Workers, WriteRetrying(w)
         PROVE  Addressed'
    BY <1>16, ConstantAssumption DEF WriteRetrying, WriteStatus, Release, rowVars,
         cancelVars, queueVars, workerVars, histVars, Addressed, TypeOK, Senders
  <1>17. ASSUME NEW w \in Workers, DeleteMessage(w)
         PROVE  Addressed'
    <2>1. CASE Remove(wMsg[w])
      BY <1>17, <2>1, ConstantAssumption DEF DeleteMessage, Remove, Release,
           rowVars, cancelVars, queueVars, workerVars, histVars, Addressed, TypeOK,
           Senders
    <2>2. CASE UNCHANGED queueVars
      BY <1>17, <2>2, ConstantAssumption DEF DeleteMessage, Remove, Release,
           rowVars, cancelVars, queueVars, workerVars, histVars, Addressed, TypeOK,
           Senders
    <2>q. QED
      BY <1>17, <2>1, <2>2 DEF DeleteMessage
  <1>18. ASSUME NEW w \in Workers, WorkerDies(w)
         PROVE  Addressed'
    BY <1>18, ConstantAssumption DEF WorkerDies, Release, rowVars, cancelVars,
         queueVars, workerVars, histVars, Addressed, TypeOK, Senders
  <1>19. ASSUME NEW p \in Reconcilers, NEW r \in Runs, SweepDlqRetrying(p, r)
         PROVE  Addressed'
    BY <1>19, ConstantAssumption DEF SweepDlqRetrying, WriteStatus, Announce,
         rowVars, cancelVars, queueVars, workerVars, histVars, Addressed, TypeOK,
         Senders
  <1>20. ASSUME NEW p \in Reconcilers, NEW r \in Runs, NEW committed \in BOOLEAN,
                SweepQueuedStuck(p, r, committed)
         PROVE  Addressed'
    BY <1>20, ConstantAssumption DEF SweepQueuedStuck, Send, rowVars, cancelVars,
         queueVars, workerVars, histVars, Addressed, TypeOK, Senders
  <1>21. ASSUME NEW p \in Reconcilers, NEW r \in Runs, SweepQueuedLost(p, r)
         PROVE  Addressed'
    BY <1>21, ConstantAssumption DEF SweepQueuedLost, rowVars, cancelVars,
         queueVars, workerVars, histVars, Addressed, TypeOK, Senders
  <1>22. ASSUME NEW p \in Reconcilers, NEW r \in Runs, OrphanReset(p, r)
         PROVE  Addressed'
    BY <1>22, ConstantAssumption DEF OrphanReset, WriteStatus, rowVars, cancelVars,
         queueVars, workerVars, histVars, Addressed, TypeOK, Senders
  <1>23. ASSUME NEW p \in Reconcilers, NEW r \in Runs, OrphanFailed(p, r)
         PROVE  Addressed'
    BY <1>23, ConstantAssumption DEF OrphanFailed, WriteStatus, Announce, SettleJob,
         rowVars, cancelVars, queueVars, workerVars, histVars, Addressed, TypeOK,
         Senders
  <1>24. ASSUME NEW p \in Reconcilers, NEW r \in Runs, SweepPublish(p, r)
         PROVE  Addressed'
    BY <1>24, ConstantAssumption DEF SweepPublish, Send, rowVars, cancelVars,
         queueVars, workerVars, histVars, Addressed, TypeOK, Senders
  <1>25. ASSUME NEW r \in Runs, CancelRead(r)
         PROVE  Addressed'
    BY <1>25, ConstantAssumption DEF CancelRead, rowVars, cancelVars, queueVars,
         workerVars, histVars, Addressed, TypeOK, Senders
  <1>26. ASSUME NEW r \in Runs, CancelFlips(r)
         PROVE  Addressed'
    BY <1>26, ConstantAssumption DEF CancelFlips, Announce, Spare, rowVars,
         cancelVars, queueVars, workerVars, histVars, Addressed, TypeOK, Senders
  <1>27. ASSUME NEW r \in Runs, CancelLeaves(r)
         PROVE  Addressed'
    BY <1>27, ConstantAssumption DEF CancelLeaves, Spare, rowVars, cancelVars,
         queueVars, workerVars, histVars, Addressed, TypeOK, Senders
  <1>q. QED
    BY <1>0, <1>1, <1>2, <1>3, <1>4, <1>5, <1>6, <1>7, <1>8, <1>9, <1>10, <1>11,
         <1>12, <1>13, <1>14, <1>15, <1>16, <1>17, <1>18, <1>19, <1>20, <1>21,
         <1>22, <1>23, <1>24, <1>25, <1>26, <1>27 DEF Next, Clock, WatcherStep,
         QueueStep, WorkerStep, ReconcilerStep, SweepRunningOrphan, CancelStep,
         CancelCommit, Senders

\* The database columns, the queue and the workers' program points keep to
\* the values the code writes, whatever the lease calibration.
THEOREM TypeCorrect == Spec => []TypeOK
  <1>1. TypeOK /\ Addressed /\ [Next]_vars => TypeOK' /\ Addressed'
    BY TypeStep, AddressedStep
  <1>q. QED
    BY TypeInit, <1>1, PTL DEF Spec
----------------------------------------------------------------------------
(* The core invariant *)

\* Steps that leave alone every variable the core invariant speaks of.
Quiet == UNCHANGED <<status, lease, announced, jobState, cancelRead, spared, pc, wRun,
                     interrupted>>

LEMMA QuietSteps ==
  /\ UNCHANGED vars => Quiet
  /\ \A r \in Runs : TimePasses(r) => Quiet
  /\ \A r \in Runs : RowAges(r) => Quiet
  /\ \A p \in Watchers, r \in Runs : WatcherPublish(p, r) => Quiet
  /\ \A p \in Senders, S \in SUBSET Runs : SendLost(p, S) => Quiet
  /\ \A m \in Msgs : MessageDue(m) => Quiet
  /\ \A m \in Msgs : VisibilityExpires(m) => Quiet
  /\ \A m \in Msgs : DeadLetter(m) => Quiet
  /\ \A p \in Reconcilers, r \in Runs, committed \in BOOLEAN : SweepQueuedStuck(p, r, committed) => Quiet
  /\ \A p \in Reconcilers, r \in Runs : SweepQueuedLost(p, r) => Quiet
  /\ \A p \in Reconcilers, r \in Runs : SweepPublish(p, r) => Quiet
  BY DEF Quiet, TimePasses, RowAges, WatcherPublish, SendLost, MessageDue,
       VisibilityExpires, DeadLetter, SweepQueuedStuck, SweepQueuedLost,
       SweepPublish, Send, Remove, rowVars, cancelVars, queueVars, workerVars,
       histVars, vars

LEMMA FirstEvent == \A s \in Terminal : Append(<< >>, s) = <<s>>
  OBVIOUS

\* A terminal write with its event keeps OneTerminalEvent, if the run had none.
LEMMA TerminalWrite ==
  ASSUME TypeOK, OneTerminalEvent,
         NEW r \in Runs, NEW s \in {"SUCCEEDED", "FAILED"},
         jobState[r] = "cancelled" \/ announced[r] = << >>,
         status' = [status EXCEPT ![r] = s],
         announced' = [announced EXCEPT ![r] = Append(announced[r], s)],
         \A q \in Runs : jobState[q] = "cancelled" => jobState'[q] = "cancelled"
  PROVE  OneTerminalEvent'
  <1> SUFFICES ASSUME NEW q \in Runs, jobState'[q] # "cancelled"
               PROVE  announced'[q] = IF status'[q] \in Terminal THEN <<status'[q]>> ELSE << >>
    BY DEF OneTerminalEvent
  <1>0. jobState[q] # "cancelled"
    OBVIOUS
  <1>1. CASE q = r
    <2>1. announced'[q] = Append(<< >>, s)
      BY <1>0, <1>1 DEF TypeOK
    <2>2. status'[q] = s /\ s \in Terminal
      BY <1>1 DEF TypeOK, Terminal
    <2>3. Append(<< >>, s) = <<s>>
      BY <2>2, FirstEvent
    <2>q. QED
      BY <2>1, <2>2, <2>3, Zenon
  <1>2. CASE q # r
    BY <1>0, <1>2 DEF TypeOK, OneTerminalEvent
  <1>q. QED
    BY <1>1, <1>2

LEMMA CoreStep ==
  ASSUME LeaseCalibrated, TypeOK, Addressed, Core, [Next]_vars
  PROVE  Core'
  <1>0. CASE Quiet
    BY <1>0 DEF Quiet, Core, TypeOK, Addressed, LeaseCalibrated, HeldRow,
         ExclusiveExecution, CancelledRow, InterruptedRow, UnsparedRow,
         OneTerminalEvent, Holds, Held, Holding, Executed, Claimable, Terminal,
         Status
  <1>1. ASSUME NEW r \in Runs, LeaseAges(r)
         PROVE  Core'
    BY <1>1, TypeOK, Addressed, Core, LeaseCalibrated, ConstantAssumption DEF
         LeaseAges, rowVars, cancelVars, queueVars, workerVars, histVars, Core,
         TypeOK, Addressed, LeaseCalibrated, HeldRow, ExclusiveExecution,
         CancelledRow, InterruptedRow, UnsparedRow, OneTerminalEvent, Holds, Held,
         Holding, Executed, Claimable, Terminal, Status
  <1>2. ASSUME NEW p \in Watchers, NEW S \in SUBSET Runs, WatcherClaim(p, S)
         PROVE  Core'
    BY <1>2, TypeOK, Addressed, Core, LeaseCalibrated, ConstantAssumption DEF
         WatcherClaim, rowVars, cancelVars, queueVars, workerVars, histVars, Core,
         TypeOK, Addressed, LeaseCalibrated, HeldRow, ExclusiveExecution,
         CancelledRow, InterruptedRow, UnsparedRow, OneTerminalEvent, Holds, Held,
         Holding, Executed, Claimable, Terminal, Status
  <1>3. ASSUME NEW w \in Workers, NEW m \in Msgs, Receive(w, m)
         PROVE  Core'
    BY <1>3, TypeOK, Addressed, Core, LeaseCalibrated, ConstantAssumption DEF
         Receive, rowVars, cancelVars, queueVars, workerVars, histVars, Core,
         TypeOK, Addressed, LeaseCalibrated, HeldRow, ExclusiveExecution,
         CancelledRow, InterruptedRow, UnsparedRow, OneTerminalEvent, Holds, Held,
         Holding, Executed, Claimable, Terminal, Status
  <1>4. ASSUME NEW w \in Workers, ClaimWon(w)
         PROVE  Core'
    <2>1. HeldRow'
      BY <1>4, TypeOK, Addressed, Core, LeaseCalibrated, ConstantAssumption DEF
           ClaimWon, WriteStatus, rowVars, cancelVars, queueVars, workerVars,
           histVars, TypeOK, Addressed, LeaseCalibrated, Core, HeldRow,
           ExclusiveExecution, Holds, Held, Holding, Claimable, Terminal
    <2>2. ExclusiveExecution'
      <3>1. /\ \A v \in Workers : ~Holds(v, wRun[w])
            /\ wRun' = wRun
            /\ \A v \in Workers : v # w => pc'[v] = pc[v]
        BY <1>4, Core, TypeOK, Addressed
           DEF ClaimWon, Core, TypeOK, Addressed, HeldRow, Holds, Claimable
      <3>q. QED
        BY <3>1, Core DEF Core, ExclusiveExecution, Holds
    <2>3. CancelledRow'
      BY <1>4, TypeOK, Addressed, Core, LeaseCalibrated, ConstantAssumption DEF
           ClaimWon, WriteStatus, rowVars, cancelVars, queueVars, workerVars,
           histVars, TypeOK, Addressed, LeaseCalibrated, Core, HeldRow,
           CancelledRow, Holds, Held, Holding, Claimable, Terminal
    <2>4. InterruptedRow'
      BY <1>4, TypeOK, Addressed, Core, LeaseCalibrated, ConstantAssumption DEF
           ClaimWon, WriteStatus, rowVars, cancelVars, queueVars, workerVars,
           histVars, TypeOK, Addressed, LeaseCalibrated, Core, HeldRow,
           InterruptedRow, ExclusiveExecution, Holds, Held, Holding, Claimable,
           Terminal
    <2>5. UnsparedRow'
      BY <1>4, TypeOK, Addressed, Core, LeaseCalibrated, ConstantAssumption DEF
           ClaimWon, WriteStatus, rowVars, cancelVars, queueVars, workerVars,
           histVars, TypeOK, Addressed, LeaseCalibrated, Core, HeldRow,
           CancelledRow, UnsparedRow, ExclusiveExecution, Holds, Held, Holding,
           Claimable, Terminal
    <2>6. OneTerminalEvent'
      BY <1>4, TypeOK, Addressed, Core, LeaseCalibrated, ConstantAssumption DEF
           ClaimWon, WriteStatus, rowVars, cancelVars, queueVars, workerVars,
           histVars, TypeOK, Addressed, LeaseCalibrated, Core, HeldRow,
           CancelledRow, OneTerminalEvent, Holds, Held, Holding, Claimable, Terminal
    <2>q. QED
      BY <2>1, <2>2, <2>3, <2>4, <2>5, <2>6 DEF Core
  <1>5. ASSUME NEW w \in Workers, ClaimLost(w)
         PROVE  Core'
    BY <1>5, TypeOK, Addressed, Core, LeaseCalibrated, ConstantAssumption DEF
         ClaimLost, rowVars, cancelVars, queueVars, workerVars, histVars, Core,
         TypeOK, Addressed, LeaseCalibrated, HeldRow, ExclusiveExecution,
         CancelledRow, InterruptedRow, UnsparedRow, OneTerminalEvent, Holds, Held,
         Holding, Executed, Claimable, Terminal, Status
  <1>6. ASSUME NEW w \in Workers, Heartbeat(w)
         PROVE  Core'
    BY <1>6, TypeOK, Addressed, Core, LeaseCalibrated, ConstantAssumption DEF
         Heartbeat, rowVars, cancelVars, queueVars, workerVars, histVars, Core,
         TypeOK, Addressed, LeaseCalibrated, HeldRow, ExclusiveExecution,
         CancelledRow, InterruptedRow, UnsparedRow, OneTerminalEvent, Holds, Held,
         Holding, Executed, Claimable, Terminal, Status
  <1>7. ASSUME NEW w \in Workers, Finish(w)
         PROVE  Core'
    BY <1>7, TypeOK, Addressed, Core, LeaseCalibrated, ConstantAssumption DEF
         Finish, rowVars, cancelVars, queueVars, workerVars, histVars, Core, TypeOK,
         Addressed, LeaseCalibrated, HeldRow, ExclusiveExecution, CancelledRow,
         InterruptedRow, UnsparedRow, OneTerminalEvent, Holds, Held, Holding,
         Executed, Claimable, Terminal, Status
  <1>8. ASSUME NEW w \in Workers, WriteTerminal(w)
         PROVE  Core'
    <2>1. HeldRow'
      BY <1>8, TypeOK, Addressed, Core, LeaseCalibrated, ConstantAssumption DEF
           WriteTerminal, WriteStatus, Announce, SettleJob, rowVars, cancelVars,
           queueVars, workerVars, histVars, TypeOK, Addressed, LeaseCalibrated,
           Core, HeldRow, ExclusiveExecution, Holds, Held, Holding, Claimable,
           Terminal
    <2>2. ExclusiveExecution'
      BY <1>8, TypeOK, Addressed, Core, LeaseCalibrated, ConstantAssumption DEF
           WriteTerminal, WriteStatus, Announce, SettleJob, rowVars, cancelVars,
           queueVars, workerVars, histVars, TypeOK, Addressed, LeaseCalibrated,
           Core, HeldRow, ExclusiveExecution, Holds, Held, Holding, Claimable,
           Terminal
    <2>3. CancelledRow'
      BY <1>8, TypeOK, Addressed, Core, LeaseCalibrated, ConstantAssumption DEF
           WriteTerminal, WriteStatus, Announce, SettleJob, rowVars, cancelVars,
           queueVars, workerVars, histVars, TypeOK, Addressed, LeaseCalibrated,
           Core, HeldRow, CancelledRow, Holds, Held, Holding, Claimable, Terminal
    <2>4. InterruptedRow'
      BY <1>8, TypeOK, Addressed, Core, LeaseCalibrated, ConstantAssumption DEF
           WriteTerminal, WriteStatus, Announce, SettleJob, rowVars, cancelVars,
           queueVars, workerVars, histVars, TypeOK, Addressed, LeaseCalibrated,
           Core, HeldRow, InterruptedRow, ExclusiveExecution, Holds, Held, Holding,
           Claimable, Terminal
    <2>5. UnsparedRow'
      BY <1>8, TypeOK, Addressed, Core, LeaseCalibrated, ConstantAssumption DEF
           WriteTerminal, WriteStatus, Announce, SettleJob, rowVars, cancelVars,
           queueVars, workerVars, histVars, TypeOK, Addressed, LeaseCalibrated,
           Core, HeldRow, CancelledRow, UnsparedRow, ExclusiveExecution, Holds,
           Held, Holding, Claimable, Terminal
    <2>6. OneTerminalEvent'
      <3>0. wRun[w] \in Runs
        BY <1>8, Addressed DEF WriteTerminal, Addressed
      <3>1. \/ jobState[wRun[w]] = "cancelled"
            \/ announced[wRun[w]] = << >>
        BY <1>8, Core, TypeOK, Addressed
           DEF WriteTerminal, Core, TypeOK, Addressed, HeldRow, CancelledRow, OneTerminalEvent,
               Holding, Terminal
      <3>2. /\ \E s \in {"SUCCEEDED", "FAILED"} :
                 /\ status' = [status EXCEPT ![wRun[w]] = s]
                 /\ announced' = [announced EXCEPT ![wRun[w]] = Append(announced[wRun[w]], s)]
            /\ \A q \in Runs : jobState[q] = "cancelled" => jobState'[q] = "cancelled"
        BY <1>8, TypeOK, Addressed DEF WriteTerminal, WriteStatus, Announce, SettleJob, TypeOK, Addressed
      <3>q. QED
        BY <3>0, <3>1, <3>2, TerminalWrite, Core, TypeOK DEF Core
    <2>q. QED
      BY <2>1, <2>2, <2>3, <2>4, <2>5, <2>6 DEF Core
  <1>9. ASSUME NEW w \in Workers, WriteRetrying(w)
         PROVE  Core'
    BY <1>9, TypeOK, Addressed, Core, LeaseCalibrated, ConstantAssumption DEF
         WriteRetrying, WriteStatus, Release, rowVars, cancelVars, queueVars,
         workerVars, histVars, Core, TypeOK, Addressed, LeaseCalibrated, HeldRow,
         ExclusiveExecution, CancelledRow, InterruptedRow, UnsparedRow,
         OneTerminalEvent, Holds, Held, Holding, Executed, Claimable, Terminal,
         Status
  <1>10. ASSUME NEW w \in Workers, DeleteMessage(w)
         PROVE  Core'
    BY <1>10, TypeOK, Addressed, Core, LeaseCalibrated, ConstantAssumption DEF
         DeleteMessage, Remove, Release, rowVars, cancelVars, queueVars, workerVars,
         histVars, Core, TypeOK, Addressed, LeaseCalibrated, HeldRow,
         ExclusiveExecution, CancelledRow, InterruptedRow, UnsparedRow,
         OneTerminalEvent, Holds, Held, Holding, Executed, Claimable, Terminal,
         Status
  <1>11. ASSUME NEW w \in Workers, WorkerDies(w)
         PROVE  Core'
    BY <1>11, TypeOK, Addressed, Core, LeaseCalibrated, ConstantAssumption DEF
         WorkerDies, Release, rowVars, cancelVars, queueVars, workerVars, histVars,
         Core, TypeOK, Addressed, LeaseCalibrated, HeldRow, ExclusiveExecution,
         CancelledRow, InterruptedRow, UnsparedRow, OneTerminalEvent, Holds, Held,
         Holding, Executed, Claimable, Terminal, Status
  <1>12. ASSUME NEW p \in Reconcilers, NEW r \in Runs, SweepDlqRetrying(p, r)
         PROVE  Core'
    <2>1. HeldRow'
      BY <1>12, TypeOK, Addressed, Core, LeaseCalibrated, ConstantAssumption DEF
           SweepDlqRetrying, WriteStatus, Announce, rowVars, cancelVars, queueVars,
           workerVars, histVars, TypeOK, Addressed, LeaseCalibrated, Core, HeldRow,
           ExclusiveExecution, Holds, Held, Holding, Claimable, Terminal
    <2>2. ExclusiveExecution'
      BY <1>12, TypeOK, Addressed, Core, LeaseCalibrated, ConstantAssumption DEF
           SweepDlqRetrying, WriteStatus, Announce, rowVars, cancelVars, queueVars,
           workerVars, histVars, TypeOK, Addressed, LeaseCalibrated, Core, HeldRow,
           ExclusiveExecution, Holds, Held, Holding, Claimable, Terminal
    <2>3. CancelledRow'
      BY <1>12, TypeOK, Addressed, Core, LeaseCalibrated, ConstantAssumption DEF
           SweepDlqRetrying, WriteStatus, Announce, rowVars, cancelVars, queueVars,
           workerVars, histVars, TypeOK, Addressed, LeaseCalibrated, Core, HeldRow,
           CancelledRow, Holds, Held, Holding, Claimable, Terminal
    <2>4. InterruptedRow'
      BY <1>12, TypeOK, Addressed, Core, LeaseCalibrated, ConstantAssumption DEF
           SweepDlqRetrying, WriteStatus, Announce, rowVars, cancelVars, queueVars,
           workerVars, histVars, TypeOK, Addressed, LeaseCalibrated, Core, HeldRow,
           InterruptedRow, ExclusiveExecution, Holds, Held, Holding, Claimable,
           Terminal
    <2>5. UnsparedRow'
      BY <1>12, TypeOK, Addressed, Core, LeaseCalibrated, ConstantAssumption DEF
           SweepDlqRetrying, WriteStatus, Announce, rowVars, cancelVars, queueVars,
           workerVars, histVars, TypeOK, Addressed, LeaseCalibrated, Core, HeldRow,
           CancelledRow, UnsparedRow, ExclusiveExecution, Holds, Held, Holding,
           Claimable, Terminal
    <2>6. OneTerminalEvent'
      <3>1. \/ jobState[r] = "cancelled"
            \/ announced[r] = << >>
        BY <1>12, Core, TypeOK, Addressed
           DEF SweepDlqRetrying, Core, TypeOK, Addressed, HeldRow, CancelledRow, OneTerminalEvent,
               Holding, Terminal
      <3>2. /\ \E s \in {"SUCCEEDED", "FAILED"} :
                 /\ status' = [status EXCEPT ![r] = s]
                 /\ announced' = [announced EXCEPT ![r] = Append(announced[r], s)]
            /\ \A q \in Runs : jobState[q] = "cancelled" => jobState'[q] = "cancelled"
        BY <1>12, TypeOK, Addressed DEF SweepDlqRetrying, WriteStatus, Announce, cancelVars, TypeOK, Addressed
      <3>q. QED
        BY <3>1, <3>2, TerminalWrite, Core, TypeOK DEF Core
    <2>q. QED
      BY <2>1, <2>2, <2>3, <2>4, <2>5, <2>6 DEF Core
  <1>13. ASSUME NEW p \in Reconcilers, NEW r \in Runs, OrphanReset(p, r)
         PROVE  Core'
    BY <1>13, TypeOK, Addressed, Core, LeaseCalibrated, ConstantAssumption DEF
         OrphanReset, WriteStatus, rowVars, cancelVars, queueVars, workerVars,
         histVars, Core, TypeOK, Addressed, LeaseCalibrated, HeldRow,
         ExclusiveExecution, CancelledRow, InterruptedRow, UnsparedRow,
         OneTerminalEvent, Holds, Held, Holding, Executed, Claimable, Terminal,
         Status
  <1>14. ASSUME NEW p \in Reconcilers, NEW r \in Runs, OrphanFailed(p, r)
         PROVE  Core'
    <2>1. HeldRow'
      BY <1>14, TypeOK, Addressed, Core, LeaseCalibrated, ConstantAssumption DEF
           OrphanFailed, WriteStatus, Announce, SettleJob, rowVars, cancelVars,
           queueVars, workerVars, histVars, TypeOK, Addressed, LeaseCalibrated,
           Core, HeldRow, ExclusiveExecution, Holds, Held, Holding, Claimable,
           Terminal
    <2>2. ExclusiveExecution'
      BY <1>14, TypeOK, Addressed, Core, LeaseCalibrated, ConstantAssumption DEF
           OrphanFailed, WriteStatus, Announce, SettleJob, rowVars, cancelVars,
           queueVars, workerVars, histVars, TypeOK, Addressed, LeaseCalibrated,
           Core, HeldRow, ExclusiveExecution, Holds, Held, Holding, Claimable,
           Terminal
    <2>3. CancelledRow'
      BY <1>14, TypeOK, Addressed, Core, LeaseCalibrated, ConstantAssumption DEF
           OrphanFailed, WriteStatus, Announce, SettleJob, rowVars, cancelVars,
           queueVars, workerVars, histVars, TypeOK, Addressed, LeaseCalibrated,
           Core, HeldRow, CancelledRow, Holds, Held, Holding, Claimable, Terminal
    <2>4. InterruptedRow'
      BY <1>14, TypeOK, Addressed, Core, LeaseCalibrated, ConstantAssumption DEF
           OrphanFailed, WriteStatus, Announce, SettleJob, rowVars, cancelVars,
           queueVars, workerVars, histVars, TypeOK, Addressed, LeaseCalibrated,
           Core, HeldRow, InterruptedRow, ExclusiveExecution, Holds, Held, Holding,
           Claimable, Terminal
    <2>5. UnsparedRow'
      BY <1>14, TypeOK, Addressed, Core, LeaseCalibrated, ConstantAssumption DEF
           OrphanFailed, WriteStatus, Announce, SettleJob, rowVars, cancelVars,
           queueVars, workerVars, histVars, TypeOK, Addressed, LeaseCalibrated,
           Core, HeldRow, CancelledRow, UnsparedRow, ExclusiveExecution, Holds,
           Held, Holding, Claimable, Terminal
    <2>6. OneTerminalEvent'
      <3>1. \/ jobState[r] = "cancelled"
            \/ announced[r] = << >>
        BY <1>14, Core, TypeOK, Addressed
           DEF OrphanFailed, Core, TypeOK, Addressed, HeldRow, CancelledRow, OneTerminalEvent,
               Holding, Terminal
      <3>2. /\ \E s \in {"SUCCEEDED", "FAILED"} :
                 /\ status' = [status EXCEPT ![r] = s]
                 /\ announced' = [announced EXCEPT ![r] = Append(announced[r], s)]
            /\ \A q \in Runs : jobState[q] = "cancelled" => jobState'[q] = "cancelled"
        BY <1>14, TypeOK, Addressed DEF OrphanFailed, WriteStatus, Announce, SettleJob, TypeOK, Addressed
      <3>q. QED
        BY <3>1, <3>2, TerminalWrite, Core, TypeOK DEF Core
    <2>q. QED
      BY <2>1, <2>2, <2>3, <2>4, <2>5, <2>6 DEF Core
  <1>15. ASSUME NEW r \in Runs, CancelRead(r)
         PROVE  Core'
    BY <1>15, TypeOK, Addressed, Core, LeaseCalibrated, ConstantAssumption DEF
         CancelRead, rowVars, cancelVars, queueVars, workerVars, histVars, Core,
         TypeOK, Addressed, LeaseCalibrated, HeldRow, ExclusiveExecution,
         CancelledRow, InterruptedRow, UnsparedRow, OneTerminalEvent, Holds, Held,
         Holding, Executed, Claimable, Terminal, Status
  <1>16. ASSUME NEW r \in Runs, CancelFlips(r)
         PROVE  Core'
    BY <1>16, TypeOK, Addressed, Core, LeaseCalibrated, ConstantAssumption DEF
         CancelFlips, Announce, Spare, rowVars, cancelVars, queueVars, workerVars,
         histVars, Core, TypeOK, Addressed, LeaseCalibrated, HeldRow,
         ExclusiveExecution, CancelledRow, InterruptedRow, UnsparedRow,
         OneTerminalEvent, Holds, Held, Holding, Executed, Claimable, Terminal,
         Status
  <1>17. ASSUME NEW r \in Runs, CancelLeaves(r)
         PROVE  Core'
    BY <1>17, TypeOK, Addressed, Core, LeaseCalibrated, ConstantAssumption DEF
         CancelLeaves, Spare, rowVars, cancelVars, queueVars, workerVars, histVars,
         Core, TypeOK, Addressed, LeaseCalibrated, HeldRow, ExclusiveExecution,
         CancelledRow, InterruptedRow, UnsparedRow, OneTerminalEvent, Holds, Held,
         Holding, Executed, Claimable, Terminal, Status
  <1>q. QED
    BY <1>0, <1>1, <1>2, <1>3, <1>4, <1>5, <1>6, <1>7, <1>8, <1>9, <1>10, <1>11,
         <1>12, <1>13, <1>14, <1>15, <1>16, <1>17, QuietSteps DEF Next, Clock,
         WatcherStep, QueueStep, WorkerStep, ReconcilerStep, SweepRunningOrphan,
         CancelStep, CancelCommit, Senders

LEMMA IInvInit == Init => IInv
  <1>1. Init => Core
    BY ConstantAssumption
       DEF Init, Core, HeldRow, ExclusiveExecution, CancelledRow, InterruptedRow,
           UnsparedRow, OneTerminalEvent, Holds, Held, Holding, Terminal
  <1>q. QED
    BY <1>1, TypeInit DEF IInv

LEMMA IInvStep == ASSUME LeaseCalibrated PROVE IInv /\ [Next]_vars => IInv'
  BY TypeStep, AddressedStep, CoreStep DEF IInv

THEOREM Invariance == ASSUME LeaseCalibrated PROVE Spec => []IInv
  BY IInvInit, IInvStep, PTL DEF Spec

----------------------------------------------------------------------------
(* What follows from it *)

\* The steps that write job_runs.status.
Writes ==
  \/ \E p \in Watchers, S \in SUBSET Runs : WatcherClaim(p, S)
  \/ \E w \in Workers : ClaimWon(w) \/ WriteTerminal(w) \/ WriteRetrying(w)
  \/ \E p \in Reconcilers, r \in Runs :
       SweepDlqRetrying(p, r) \/ OrphanReset(p, r) \/ OrphanFailed(p, r)
  \/ \E r \in Runs : CancelFlips(r)

\* Every other step leaves it alone.
LEMMA WritersOfStatus == [Next]_vars => Writes \/ UNCHANGED status
  BY DEF Writes, Next, Clock, WatcherStep, QueueStep, WorkerStep, ReconcilerStep,
       SweepRunningOrphan, CancelStep, CancelCommit, Senders, vars, rowVars,
       TimePasses, RowAges, LeaseAges, WatcherPublish, SendLost, MessageDue,
       VisibilityExpires, DeadLetter, Receive, ClaimLost, Heartbeat, Finish,
       DeleteMessage, WorkerDies, SweepQueuedStuck, SweepQueuedLost, SweepPublish,
       CancelRead, CancelLeaves

\* A run that starts was claimable: only the claim writes RUNNING.
LEMMA RestartStep ==
  ASSUME TypeOK, Addressed, [Next]_vars, NEW r \in Runs, status'[r] = "RUNNING"
  PROVE  status[r] \in Claimable \union {"RUNNING"}
  <1>1. CASE UNCHANGED status
    BY <1>1
  <1>2. ASSUME NEW p \in Watchers, NEW S \in SUBSET Runs, WatcherClaim(p, S)
        PROVE  status[r] \in Claimable \union {"RUNNING"}
    BY <1>2 DEF WatcherClaim
  <1>3. ASSUME NEW w \in Workers, ClaimWon(w)
        PROVE  status[r] \in Claimable \union {"RUNNING"}
    BY <1>3 DEF ClaimWon, WriteStatus, TypeOK, Addressed
  <1>4. ASSUME NEW w \in Workers, WriteTerminal(w) \/ WriteRetrying(w)
        PROVE  status[r] \in Claimable \union {"RUNNING"}
    BY <1>4 DEF WriteTerminal, WriteRetrying, WriteStatus, TypeOK
  <1>5. ASSUME NEW p \in Reconcilers, NEW q \in Runs,
               SweepDlqRetrying(p, q) \/ OrphanReset(p, q) \/ OrphanFailed(p, q)
        PROVE  status[r] \in Claimable \union {"RUNNING"}
    BY <1>5 DEF SweepDlqRetrying, OrphanReset, OrphanFailed, WriteStatus, TypeOK
  <1>6. ASSUME NEW q \in Runs, CancelFlips(q)
        PROVE  status[r] \in Claimable \union {"RUNNING"}
    BY <1>6 DEF CancelFlips, TypeOK
  <1>q. QED
    BY <1>1, <1>2, <1>3, <1>4, <1>5, <1>6, WritersOfStatus DEF Writes

\* A terminal status is overwritten only in a cancelled job.
LEMMA FinalStep ==
  ASSUME IInv, [Next]_vars, NEW r \in Runs, status[r] \in Terminal, status'[r] # status[r]
  PROVE  jobState'[r] = "cancelled"
  <1> USE DEF IInv, Core, TypeOK, Addressed, Terminal
  <1>1. CASE \E p \in Watchers, S \in SUBSET Runs : WatcherClaim(p, S)
    BY <1>1 DEF WatcherClaim
  <1>2. ASSUME NEW w \in Workers, ClaimWon(w) PROVE FALSE
    BY <1>2 DEF ClaimWon, WriteStatus, Claimable
  <1>3. ASSUME NEW w \in Workers, WriteTerminal(w) PROVE jobState'[r] = "cancelled"
    BY <1>3 DEF WriteTerminal, WriteStatus, SettleJob, HeldRow, CancelledRow, Holding
  <1>4. ASSUME NEW w \in Workers, WriteRetrying(w) PROVE jobState'[r] = "cancelled"
    BY <1>4 DEF WriteRetrying, WriteStatus, HeldRow, CancelledRow, Holding, cancelVars
  <1>5. ASSUME NEW p \in Reconcilers, NEW q \in Runs,
               SweepDlqRetrying(p, q) \/ OrphanReset(p, q) \/ OrphanFailed(p, q)
        PROVE  FALSE
    BY <1>5 DEF SweepDlqRetrying, OrphanReset, OrphanFailed, WriteStatus
  <1>6. ASSUME NEW q \in Runs, CancelFlips(q) PROVE jobState'[r] = "cancelled"
    BY <1>6 DEF CancelFlips
  <1>q. QED
    BY <1>1, <1>2, <1>3, <1>4, <1>5, <1>6, WritersOfStatus DEF Writes

\* Two workers never execute the same run, for any numbers of workers,
\* messages, redeliveries and sweeps, when the grace window exceeds a live
\* worker's worst lease staleness.
THEOREM Exclusive == ASSUME LeaseCalibrated PROVE Spec => []ExclusiveExecution
  <1>1. IInv => ExclusiveExecution
    BY DEF IInv, Core
  <1>q. QED
    BY <1>1, Invariance, PTL

\* Every terminal run of a job that is not cancelled has announced exactly
\* its status, once: what the continuation consumer reads is what happened.
THEOREM EventPerRun == ASSUME LeaseCalibrated PROVE Spec => []OneTerminalEvent
  <1>1. IInv => OneTerminalEvent
    BY DEF IInv, Core
  <1>q. QED
    BY <1>1, Invariance, PTL

\* Sweep C never touches a run some worker is still executing.
THEOREM OrphansOnly == ASSUME LeaseCalibrated PROVE Spec => OnlyOrphansSwept
  <1>1. IInv /\ [Next]_vars
          => [\A p \in Reconcilers, r \in Runs : SweepRunningOrphan(p, r) => ~Held(r)]_vars
    BY ConstantAssumption
       DEF IInv, Core, HeldRow, TypeOK, LeaseCalibrated, SweepRunningOrphan, OrphanReset,
           OrphanFailed, Held, Holds
  <1>q. QED
    BY <1>1, Invariance, PTL DEF Spec, OnlyOrphansSwept

\* A terminal status is final unless the job is cancelled.
THEOREM Finality == ASSUME LeaseCalibrated PROVE Spec => TerminalFinal
  <1>1. IInv /\ [Next]_vars
          => [\A r \in Runs : status[r] \in Terminal /\ status'[r] # status[r]
                 => jobState'[r] = "cancelled"]_vars
    BY FinalStep
  <1>q. QED
    BY <1>1, Invariance, PTL DEF Spec, TerminalFinal

\* A run that is not idempotent is never started again after a worker died
\* while executing it.
THEOREM NoRerun == ASSUME LeaseCalibrated PROVE Spec => InterruptedNotRerun
  <1>1. IInv /\ [Next]_vars
          => [\A r \in interrupted \ Idempotent :
                 status'[r] = "RUNNING" => status[r] = "RUNNING"]_vars
    BY RestartStep DEF IInv, Core, InterruptedRow, TypeOK, Claimable
  <1>q. QED
    BY <1>1, Invariance, PTL DEF Spec, InterruptedNotRerun

\* A cancelled job's run starts only if the cancel met it RUNNING.
THEOREM NoDispatchAfterCancel == ASSUME LeaseCalibrated PROVE Spec => CancelStopsDispatch
  <1>1. IInv /\ [Next]_vars
          => [\A r \in Runs \ spared :
                 jobState[r] = "cancelled" /\ status'[r] = "RUNNING"
                   => status[r] = "RUNNING"]_vars
    BY RestartStep DEF IInv, Core, UnsparedRow, TypeOK, Claimable, Terminal
  <1>q. QED
    BY <1>1, Invariance, PTL DEF Spec, CancelStopsDispatch

----------------------------------------------------------------------------
(* Nothing runs early: no assumption on the lease *)

LEMMA DueStep ==
  ASSUME TypeOK, Addressed, DueInv, [Next]_vars
  PROVE  DueInv'
  <1>0. CASE UNCHANGED vars
    BY <1>0 DEF vars, DueInv
  <1>1. ASSUME NEW r \in Runs, TimePasses(r)
         PROVE  DueInv'
    BY <1>1, ConstantAssumption DEF TimePasses, rowVars, cancelVars, queueVars,
         workerVars, histVars, DueInv, TypeOK, Addressed, Senders
  <1>2. ASSUME NEW r \in Runs, RowAges(r)
         PROVE  DueInv'
    BY <1>2, ConstantAssumption DEF RowAges, rowVars, cancelVars, queueVars,
         workerVars, histVars, DueInv, TypeOK, Addressed, Senders
  <1>3. ASSUME NEW r \in Runs, LeaseAges(r)
         PROVE  DueInv'
    BY <1>3, ConstantAssumption DEF LeaseAges, rowVars, cancelVars, queueVars,
         workerVars, histVars, DueInv, TypeOK, Addressed, Senders
  <1>4. ASSUME NEW p \in Watchers, NEW S \in SUBSET Runs, WatcherClaim(p, S)
         PROVE  DueInv'
    BY <1>4, ConstantAssumption DEF WatcherClaim, rowVars, cancelVars, queueVars,
         workerVars, histVars, DueInv, TypeOK, Addressed, Senders
  <1>5. ASSUME NEW p \in Watchers, NEW r \in Runs, WatcherPublish(p, r)
         PROVE  DueInv'
    BY <1>5, ConstantAssumption DEF WatcherPublish, Send, rowVars, cancelVars,
         queueVars, workerVars, histVars, DueInv, TypeOK, Addressed, Senders
  <1>6. ASSUME NEW p \in Senders, NEW S \in SUBSET Runs, SendLost(p, S)
         PROVE  DueInv'
    BY <1>6, ConstantAssumption DEF SendLost, rowVars, cancelVars, queueVars,
         workerVars, histVars, DueInv, TypeOK, Addressed, Senders
  <1>7. ASSUME NEW m \in Msgs, MessageDue(m)
         PROVE  DueInv'
    BY <1>7, ConstantAssumption DEF MessageDue, rowVars, cancelVars, queueVars,
         workerVars, histVars, DueInv, TypeOK, Addressed, Senders
  <1>8. ASSUME NEW m \in Msgs, VisibilityExpires(m)
         PROVE  DueInv'
    BY <1>8, ConstantAssumption DEF VisibilityExpires, rowVars, cancelVars,
         queueVars, workerVars, histVars, DueInv, TypeOK, Addressed, Senders
  <1>9. ASSUME NEW m \in Msgs, DeadLetter(m)
         PROVE  DueInv'
    BY <1>9, ConstantAssumption DEF DeadLetter, Remove, rowVars, cancelVars,
         queueVars, workerVars, histVars, DueInv, TypeOK, Addressed, Senders
  <1>10. ASSUME NEW w \in Workers, NEW m \in Msgs, Receive(w, m)
         PROVE  DueInv'
    BY <1>10, ConstantAssumption DEF Receive, rowVars, cancelVars, queueVars,
         workerVars, histVars, DueInv, TypeOK, Addressed, Senders, Holding
  <1>11. ASSUME NEW w \in Workers, ClaimWon(w)
         PROVE  DueInv'
    BY <1>11, ConstantAssumption DEF ClaimWon, WriteStatus, rowVars, cancelVars,
         queueVars, workerVars, histVars, DueInv, TypeOK, Addressed, Senders,
         Holding
  <1>12. ASSUME NEW w \in Workers, ClaimLost(w)
         PROVE  DueInv'
    BY <1>12, ConstantAssumption DEF ClaimLost, rowVars, cancelVars, queueVars,
         workerVars, histVars, DueInv, TypeOK, Addressed, Senders
  <1>13. ASSUME NEW w \in Workers, Heartbeat(w)
         PROVE  DueInv'
    BY <1>13, ConstantAssumption DEF Heartbeat, rowVars, cancelVars, queueVars,
         workerVars, histVars, DueInv, TypeOK, Addressed, Senders
  <1>14. ASSUME NEW w \in Workers, Finish(w)
         PROVE  DueInv'
    BY <1>14, ConstantAssumption DEF Finish, rowVars, cancelVars, queueVars,
         workerVars, histVars, DueInv, TypeOK, Addressed, Senders
  <1>15. ASSUME NEW w \in Workers, WriteTerminal(w)
         PROVE  DueInv'
    BY <1>15, ConstantAssumption DEF WriteTerminal, WriteStatus, rowVars,
         cancelVars, queueVars, workerVars, histVars, DueInv, TypeOK, Addressed,
         Senders, Holding
  <1>16. ASSUME NEW w \in Workers, WriteRetrying(w)
         PROVE  DueInv'
    BY <1>16, ConstantAssumption DEF WriteRetrying, WriteStatus, Release, rowVars,
         cancelVars, queueVars, workerVars, histVars, DueInv, TypeOK, Addressed,
         Senders, Holding
  <1>17. ASSUME NEW w \in Workers, DeleteMessage(w)
         PROVE  DueInv'
    BY <1>17, ConstantAssumption, SMTT(30) DEF DeleteMessage, Remove, Release, rowVars,
         cancelVars, queueVars, workerVars, histVars, DueInv, TypeOK, Addressed,
         Senders
  <1>18. ASSUME NEW w \in Workers, WorkerDies(w)
         PROVE  DueInv'
    BY <1>18, ConstantAssumption DEF WorkerDies, Release, rowVars, cancelVars,
         queueVars, workerVars, histVars, DueInv, TypeOK, Addressed, Senders
  <1>19. ASSUME NEW p \in Reconcilers, NEW r \in Runs, SweepDlqRetrying(p, r)
         PROVE  DueInv'
    BY <1>19, ConstantAssumption DEF SweepDlqRetrying, WriteStatus, rowVars,
         cancelVars, queueVars, workerVars, histVars, DueInv, TypeOK, Addressed,
         Senders
  <1>20. ASSUME NEW p \in Reconcilers, NEW r \in Runs, NEW committed \in BOOLEAN,
                SweepQueuedStuck(p, r, committed)
         PROVE  DueInv'
    BY <1>20, ConstantAssumption DEF SweepQueuedStuck, Send, rowVars, cancelVars,
         queueVars, workerVars, histVars, DueInv, TypeOK, Addressed, Senders
  <1>21. ASSUME NEW p \in Reconcilers, NEW r \in Runs, SweepQueuedLost(p, r)
         PROVE  DueInv'
    BY <1>21, ConstantAssumption DEF SweepQueuedLost, rowVars, cancelVars,
         queueVars, workerVars, histVars, DueInv, TypeOK, Addressed, Senders
  <1>22. ASSUME NEW p \in Reconcilers, NEW r \in Runs, OrphanReset(p, r)
         PROVE  DueInv'
    BY <1>22, ConstantAssumption DEF OrphanReset, WriteStatus, rowVars, cancelVars,
         queueVars, workerVars, histVars, DueInv, TypeOK, Addressed, Senders
  <1>23. ASSUME NEW p \in Reconcilers, NEW r \in Runs, OrphanFailed(p, r)
         PROVE  DueInv'
    BY <1>23, ConstantAssumption DEF OrphanFailed, WriteStatus, rowVars, cancelVars,
         queueVars, workerVars, histVars, DueInv, TypeOK, Addressed, Senders
  <1>24. ASSUME NEW p \in Reconcilers, NEW r \in Runs, SweepPublish(p, r)
         PROVE  DueInv'
    BY <1>24, ConstantAssumption DEF SweepPublish, Send, rowVars, cancelVars,
         queueVars, workerVars, histVars, DueInv, TypeOK, Addressed, Senders
  <1>25. ASSUME NEW r \in Runs, CancelRead(r)
         PROVE  DueInv'
    BY <1>25, ConstantAssumption DEF CancelRead, rowVars, cancelVars, queueVars,
         workerVars, histVars, DueInv, TypeOK, Addressed, Senders
  <1>26. ASSUME NEW r \in Runs, CancelFlips(r)
         PROVE  DueInv'
    BY <1>26, ConstantAssumption DEF CancelFlips, rowVars, cancelVars, queueVars,
         workerVars, histVars, DueInv, TypeOK, Addressed, Senders
  <1>27. ASSUME NEW r \in Runs, CancelLeaves(r)
         PROVE  DueInv'
    BY <1>27, ConstantAssumption DEF CancelLeaves, rowVars, cancelVars, queueVars,
         workerVars, histVars, DueInv, TypeOK, Addressed, Senders
  <1>q. QED
    BY <1>0, <1>1, <1>2, <1>3, <1>4, <1>5, <1>6, <1>7, <1>8, <1>9, <1>10, <1>11,
         <1>12, <1>13, <1>14, <1>15, <1>16, <1>17, <1>18, <1>19, <1>20, <1>21,
         <1>22, <1>23, <1>24, <1>25, <1>26, <1>27 DEF Next, Clock, WatcherStep,
         QueueStep, WorkerStep, ReconcilerStep, SweepRunningOrphan, CancelStep,
         CancelCommit, Senders

\* No run is executed before its scheduled_at, whatever is published ahead,
\* re-enqueued or redelivered, and whatever the lease calibration.
THEOREM NotEarly == Spec => []NoEarlyDispatch
  <1>1. Init => DueInv
    BY DEF Init, DueInv, Senders
  <1>2. TypeOK /\ Addressed /\ DueInv /\ [Next]_vars => TypeOK' /\ Addressed' /\ DueInv'
    BY TypeStep, AddressedStep, DueStep
  <1>3. DueInv => NoEarlyDispatch
    BY DEF DueInv, NoEarlyDispatch, Held, Holds, Holding
  <1>q. QED
    BY <1>1, <1>2, <1>3, TypeInit, PTL DEF Spec

----------------------------------------------------------------------------
(* Refinement *)

\* Every step of the execution plane is a step of the contract or changes
\* neither the run's status nor the job's state.
LEMMA ContractStep ==
  ASSUME IInv, [Next]_vars
  PROVE  [Contract!ContractNext]_<<status, jobState>>
  <1> USE DEF IInv, Core, TypeOK, Addressed, Contract!ContractNext
  <1>1. ASSUME NEW p \in Watchers, NEW S \in SUBSET Runs, WatcherClaim(p, S)
        PROVE  Contract!ContractNext
    <2>1. Contract!BatchQueued(S)
      BY <1>1 DEF WatcherClaim, Contract!BatchQueued, cancelVars
    <2>q. QED
      BY <2>1
  <1>2. ASSUME NEW w \in Workers, ClaimWon(w)
        PROVE  Contract!ContractNext
    <2>1. Contract!RunMoves(wRun[w], "RUNNING")
      BY <1>2 DEF ClaimWon, WriteStatus, Contract!RunMoves, Contract!Edge, Claimable, cancelVars
    <2>2. wRun[w] \in Runs
      BY <1>2 DEF ClaimWon
    <2>q. QED
      BY <2>1, <2>2
  <1>3. ASSUME NEW w \in Workers, WriteTerminal(w)
        PROVE  Contract!ContractNext
    <2>1. wRun[w] \in Runs /\ pc[w] \in Holding
      BY <1>3 DEF WriteTerminal, Holding
    <2>2. PICK s \in {"SUCCEEDED", "FAILED"} : status' = [status EXCEPT ![wRun[w]] = s]
      BY <1>3 DEF WriteTerminal, WriteStatus
    <2>3. \/ status[wRun[w]] = "RUNNING"
          \/ status[wRun[w]] = "CANCELLED" /\ jobState[wRun[w]] = "cancelled"
      BY <2>1 DEF HeldRow, CancelledRow
    <2>4. \/ UNCHANGED jobState
          \/ /\ wRun[w] \in OneShot /\ jobState[wRun[w]] = "active"
             /\ jobState' = [jobState EXCEPT ![wRun[w]] = "completed"]
      BY <1>3 DEF WriteTerminal, SettleJob
    <2>5. Contract!RunMoves(wRun[w], s)
      BY <2>2, <2>3, <2>4 DEF Contract!RunMoves, Contract!Edge
    <2>q. QED
      BY <2>1, <2>5
  <1>4. ASSUME NEW w \in Workers, WriteRetrying(w)
        PROVE  Contract!ContractNext
    <2>1. wRun[w] \in Runs /\ pc[w] \in Holding
      BY <1>4 DEF WriteRetrying, Holding
    <2>2. Contract!RunMoves(wRun[w], "RETRYING")
      BY <1>4, <2>1 DEF WriteRetrying, WriteStatus, HeldRow, CancelledRow, cancelVars,
           Contract!RunMoves, Contract!Edge
    <2>q. QED
      BY <2>1, <2>2
  <1>5. ASSUME NEW p \in Reconcilers, NEW r \in Runs, SweepDlqRetrying(p, r)
        PROVE  Contract!ContractNext
    <2>1. Contract!RunMoves(r, "FAILED")
      BY <1>5 DEF SweepDlqRetrying, WriteStatus, Contract!RunMoves, Contract!Edge, cancelVars
    <2>q. QED
      BY <2>1
  <1>6. ASSUME NEW p \in Reconcilers, NEW r \in Runs, OrphanReset(p, r)
        PROVE  Contract!ContractNext
    <2>1. Contract!RunMoves(r, "QUEUED")
      BY <1>6 DEF OrphanReset, WriteStatus, Contract!RunMoves, Contract!Edge, cancelVars
    <2>q. QED
      BY <2>1
  <1>7. ASSUME NEW p \in Reconcilers, NEW r \in Runs, OrphanFailed(p, r)
        PROVE  Contract!ContractNext
    <2>1. status' = [status EXCEPT ![r] = "FAILED"] /\ status[r] = "RUNNING"
      BY <1>7 DEF OrphanFailed, WriteStatus
    <2>2. \/ UNCHANGED jobState
          \/ /\ r \in OneShot /\ jobState[r] = "active"
             /\ jobState' = [jobState EXCEPT ![r] = "completed"]
      BY <1>7 DEF OrphanFailed, SettleJob
    <2>3. Contract!RunMoves(r, "FAILED")
      BY <2>1, <2>2 DEF Contract!RunMoves, Contract!Edge
    <2>q. QED
      BY <2>3
  <1>8. ASSUME NEW r \in Runs, CancelCommit(r)
        PROVE  Contract!ContractNext
    <2>1. Contract!Cancelled(r)
      BY <1>8 DEF CancelCommit, CancelFlips, CancelLeaves, CancelledRow, Contract!Cancelled,
           rowVars, Terminal, Claimable
    <2>q. QED
      BY <2>1
  <1>9. \/ Writes
        \/ \E r \in Runs : CancelLeaves(r)
        \/ UNCHANGED <<status, jobState>>
    BY DEF Writes, Next, Clock, WatcherStep, QueueStep, WorkerStep, ReconcilerStep,
         SweepRunningOrphan, CancelStep, CancelCommit, Senders, vars, rowVars,
         cancelVars, TimePasses, RowAges, LeaseAges, WatcherPublish, SendLost,
         MessageDue, VisibilityExpires, DeadLetter, Receive, ClaimLost, Heartbeat,
         Finish, DeleteMessage, WorkerDies, SweepQueuedStuck, SweepQueuedLost,
         SweepPublish, CancelRead
  <1>q. QED
    BY <1>1, <1>2, <1>3, <1>4, <1>5, <1>6, <1>7, <1>8, <1>9 DEF Writes, CancelCommit

\* The execution plane implements RunContract: queue, workers, leases and
\* sweeps never show more than the contract's moves in the database.
THEOREM Refinement == ASSUME LeaseCalibrated PROVE Spec => ImplementsContract
  <1>1. Init => Contract!ContractInit
    BY DEF Init, Contract!ContractInit
  <1>2. IInv /\ [Next]_vars => [Contract!ContractNext]_<<status, jobState>>
    BY ContractStep
  <1>q. QED
    BY <1>1, <1>2, Invariance, PTL
       DEF Spec, ImplementsContract, Contract!ContractSpec, Contract!contractVars
=============================================================================
