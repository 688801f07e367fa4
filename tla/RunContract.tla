---------------------------- MODULE RunContract ----------------------------
(***************************************************************************)
(* What the execution plane promises of a job_runs row and its job to      *)
(* every reader of the database (task.status, the continuation consumer,   *)
(* the quota check), without queue, workers, leases or sweeps.             *)
(***************************************************************************)
EXTENDS Naturals

CONSTANTS
  Runs,      \* job_runs rows, each of a job of its own
  OneShot    \* runs of immediate/one-shot jobs

VARIABLES
  status,    \* job_runs.status
  jobState   \* jobs.state

contractVars == <<status, jobState>>

ContractInit ==
  /\ status = [r \in Runs |-> "PENDING"]
  /\ jobState = [r \in Runs |-> "active"]

\* The edges a run moves along while nobody cancels its job.
Edge == { <<"PENDING", "QUEUED">>,
          <<"PENDING", "RUNNING">>, <<"QUEUED", "RUNNING">>, <<"RETRYING", "RUNNING">>,
          <<"RUNNING", "SUCCEEDED">>, <<"RUNNING", "FAILED">>, <<"RUNNING", "RETRYING">>,
          <<"RUNNING", "QUEUED">>,
          <<"RETRYING", "FAILED">> }

\* A one-shot job is completed in the step that makes its run terminal, or
\* left active by the sweep of a RETRYING row (the consumer settles it).
\* A CANCELLED row is left only when its job is cancelled: by the worker that
\* was executing it when the cancel committed.
RunMoves(r, s) ==
  /\ \/ <<status[r], s>> \in Edge
     \/ status[r] = "CANCELLED" /\ jobState[r] = "cancelled"
          /\ s \in {"SUCCEEDED", "FAILED", "RETRYING"}
  /\ status' = [status EXCEPT ![r] = s]
  /\ \/ UNCHANGED jobState
     \/ /\ r \in OneShot /\ jobState[r] = "active" /\ s \in {"SUCCEEDED", "FAILED"}
        /\ jobState' = [jobState EXCEPT ![r] = "completed"]

\* The watcher queues a batch of PENDING rows in one transaction.
BatchQueued(S) ==
  /\ \A r \in S : status[r] = "PENDING"
  /\ status' = [r \in Runs |-> IF r \in S THEN "QUEUED" ELSE status[r]]
  /\ UNCHANGED jobState

\* A cancel succeeds on an active job only; the run is CANCELLED or left alone.
Cancelled(r) ==
  /\ jobState[r] = "active"
  /\ jobState' = [jobState EXCEPT ![r] = "cancelled"]
  /\ status' \in {status, [status EXCEPT ![r] = "CANCELLED"]}

ContractNext ==
  \/ \E r \in Runs : Cancelled(r)
  \/ \E r \in Runs : \E s \in {"QUEUED", "RUNNING", "SUCCEEDED", "FAILED", "RETRYING"} : RunMoves(r, s)
  \/ \E S \in SUBSET Runs : BatchQueued(S)

ContractSpec == ContractInit /\ [][ContractNext]_contractVars
=============================================================================
