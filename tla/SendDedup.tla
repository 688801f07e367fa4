------------------------------ MODULE SendDedup ------------------------------
(***************************************************************************)
(* email_send: the write-ahead intent that makes a re-dispatched run       *)
(* effectively-once at the boundary to the mail provider.                  *)
(*                                                                         *)
(* Every run r here is a run of an email_send job, an action that is not   *)
(* idempotent.  One worker at a time executes a run (theorem Exclusive of  *)
(* module RunLifecycleProofs), so the handler's position is a function of  *)
(* the run.  A request on its way to the provider outlives the handler that *)
(* posted it: the provider may take it after the handler has given up.     *)
(***************************************************************************)
EXTENDS Integers, FiniteSets

CONSTANTS
  Runs,         \* runs of email_send jobs
  MaxAttempts   \* bound on the times a run is dispatched (maxReceiveCount)

ASSUME SendAssumption == MaxAttempts \in Nat \ {0}

Attempts == 1 .. MaxAttempts

VARIABLES
  status,    \* job_runs.status; "READY" stands for PENDING and QUEUED
  attempt,   \* times the run has been dispatched
  step,      \* where the handler is
  intent,    \* send_intents.status, or "none"
  wire,      \* requests posted and not yet decided by the provider
  inbox,     \* attempts whose message the provider has sent
  cancelled, \* runs whose job has been cancelled
  crashed,   \* history: runs whose worker died in the handler
  posted,    \* history: attempts whose request was posted
  inDoubt    \* history: attempts that ended without a conclusive answer

vars == <<status, attempt, step, intent, wire, inbox, cancelled, crashed, posted, inDoubt>>

----------------------------------------------------------------------------
(* Values *)

Claimable == {"READY", "RETRYING"}
Terminal  == {"SUCCEEDED", "FAILED", "CANCELLED"}

\* Steps of EmailSendHandler.execute, in order.
InHandler == {"preflight", "gate", "posting", "waiting", "confirming", "confirmed"}
\* What it returned, or raised, to _dispatch.
Outcomes  == {"ok", "failed", "retryable"}

TypeOK ==
  /\ status \in [Runs -> Claimable \union {"RUNNING"} \union Terminal]
  /\ attempt \in [Runs -> 0 .. MaxAttempts]
  /\ step \in [Runs -> {"idle"} \union InHandler \union Outcomes]
  /\ intent \in [Runs -> {"none", "attempting", "sent"}]
  /\ wire \in [Runs -> SUBSET Attempts]
  /\ inbox \in [Runs -> SUBSET Attempts]
  /\ cancelled \subseteq Runs
  /\ crashed \subseteq Runs
  /\ posted \in [Runs -> SUBSET Attempts]
  /\ inDoubt \in [Runs -> SUBSET Attempts]

Init ==
  /\ status = [r \in Runs |-> "READY"]
  /\ attempt = [r \in Runs |-> 0]
  /\ step = [r \in Runs |-> "idle"]
  /\ intent = [r \in Runs |-> "none"]
  /\ wire = [r \in Runs |-> {}]
  /\ inbox = [r \in Runs |-> {}]
  /\ cancelled = {} /\ crashed = {}
  /\ posted = [r \in Runs |-> {}]
  /\ inDoubt = [r \in Runs |-> {}]

----------------------------------------------------------------------------
(* Helpers *)

GoTo(r, s) == step' = [step EXCEPT ![r] = s]

\* Faulty variant of DecideSend: any earlier attempt is sent again.
DecideSendAgain(existing) == IF existing = "none" THEN "send" ELSE "resend"

\* Faulty variant of DecideSend: an unconfirmed attempt counts as sent.
DecideSendOnce(existing) == IF existing = "none" THEN "send" ELSE "skip"

\* decide_send: no intent, a confirmed one, an unconfirmed one.
DecideSend(existing) ==
  CASE existing = "none" -> "send"
    [] existing = "sent" -> "skip"
    [] OTHER -> "resend"

\* The current attempt ends; if it posted, no answer told it what became of
\* its request, or the answer is not yet on record.
LeaveInDoubt(r) ==
  inDoubt' = IF step[r] \in {"waiting", "confirming"}
             THEN [inDoubt EXCEPT ![r] = @ \union {attempt[r]}] ELSE inDoubt

----------------------------------------------------------------------------
(* The worker around the handler *)

\* _claim
Claim(r) ==
  /\ status[r] \in Claimable /\ step[r] = "idle"
  /\ attempt[r] < MaxAttempts
  /\ status' = [status EXCEPT ![r] = "RUNNING"]
  /\ attempt' = [attempt EXCEPT ![r] = @ + 1]
  /\ GoTo(r, "preflight")
  /\ UNCHANGED <<intent, wire, inbox, cancelled, crashed, posted, inDoubt>>

\* The wait_for of _dispatch times out, the handler raises (mark_sent and
\* begin may), or the POST ends in a timeout or a network error.
Interrupted(r) ==
  /\ step[r] \in InHandler
  /\ GoTo(r, "retryable")
  /\ LeaveInDoubt(r)
  /\ UNCHANGED <<status, attempt, intent, wire, inbox, cancelled, crashed, posted>>

\* Faulty variant of WriteOutcome: the event's type is written as the status.
WriteOutcomeEventType(r) ==
  /\ step[r] \in Outcomes
  /\ status' = [status EXCEPT ![r] = CASE step[r] = "ok" -> "SUCCEEDED"
                                       [] step[r] = "failed" -> "FAILED"
                                       [] step[r] = "retryable" -> "RETRY"]
  /\ GoTo(r, "idle")
  /\ UNCHANGED <<attempt, intent, wire, inbox, cancelled, crashed, posted, inDoubt>>

\* _write_terminal and _write_retrying, by run_id.
WriteOutcome(r) ==
  /\ step[r] \in Outcomes
  /\ status' = [status EXCEPT ![r] = CASE step[r] = "ok" -> "SUCCEEDED"
                                       [] step[r] = "failed" -> "FAILED"
                                       [] step[r] = "retryable" -> "RETRYING"]
  /\ GoTo(r, "idle")
  /\ UNCHANGED <<attempt, intent, wire, inbox, cancelled, crashed, posted, inDoubt>>

\* The worker process dies; the row keeps its status.
WorkerDies(r) ==
  /\ step[r] # "idle"
  /\ GoTo(r, "idle")
  /\ LeaveInDoubt(r)
  /\ crashed' = crashed \union {r}
  /\ UNCHANGED <<status, attempt, intent, wire, inbox, cancelled, posted>>

\* Faulty variant of SweepRunningOrphan: the orphan is queued again.
SweepRunningOrphanRequeues(r) ==
  /\ status[r] = "RUNNING" /\ step[r] = "idle"
  /\ status' = [status EXCEPT ![r] = "READY"]
  /\ UNCHANGED <<attempt, step, intent, wire, inbox, cancelled, crashed, posted, inDoubt>>

\* Sweep C: email_send is not idempotent, so an orphan is FAILED.
SweepRunningOrphan(r) ==
  /\ status[r] = "RUNNING" /\ step[r] = "idle"
  /\ status' = [status EXCEPT ![r] = "FAILED"]
  /\ UNCHANGED <<attempt, step, intent, wire, inbox, cancelled, crashed, posted, inDoubt>>

\* Sweep A: no redelivery came in time.
SweepDlqRetrying(r) ==
  /\ status[r] = "RETRYING"
  /\ status' = [status EXCEPT ![r] = "FAILED"]
  /\ UNCHANGED <<attempt, step, intent, wire, inbox, cancelled, crashed, posted, inDoubt>>

\* cancel_job.  A run it read as cancellable may be RUNNING by the time it is
\* overwritten (property RunningLeftUntouched of module RunLifecycle).
Cancel(r) ==
  /\ r \notin cancelled
  /\ cancelled' = cancelled \union {r}
  /\ status' = [status EXCEPT ![r] = IF @ \in Terminal THEN @ ELSE "CANCELLED"]
  /\ UNCHANGED <<attempt, step, intent, wire, inbox, crashed, posted, inDoubt>>

----------------------------------------------------------------------------
(* EmailSendHandler.execute *)

\* No body, no user, or no Google connection (absent, expired, not refreshed).
PreflightFails(r) ==
  /\ step[r] = "preflight"
  /\ GoTo(r, "failed")
  /\ UNCHANGED <<status, attempt, intent, wire, inbox, cancelled, crashed, posted, inDoubt>>

\* Body, connection and token are there.
PreflightPasses(r) ==
  /\ step[r] = "preflight"
  /\ GoTo(r, "gate")
  /\ UNCHANGED <<status, attempt, intent, wire, inbox, cancelled, crashed, posted, inDoubt>>

\* PostgresDedupStore.begin: INSERT ... ON CONFLICT DO NOTHING, or the status
\* of the row that is there.
Begin(r) ==
  /\ step[r] = "gate"
  /\ intent' = [intent EXCEPT ![r] = IF @ = "none" THEN "attempting" ELSE @]
  /\ GoTo(r, IF DecideSend(intent[r]) = "skip" THEN "ok" ELSE "posting")
  /\ UNCHANGED <<status, attempt, wire, inbox, cancelled, crashed, posted, inDoubt>>

\* client.post: the request leaves.
Post(r) ==
  /\ step[r] = "posting"
  /\ wire' = [wire EXCEPT ![r] = @ \union {attempt[r]}]
  /\ posted' = [posted EXCEPT ![r] = @ \union {attempt[r]}]
  /\ GoTo(r, "waiting")
  /\ UNCHANGED <<status, attempt, intent, inbox, cancelled, crashed, inDoubt>>

\* Faulty variant of HearAccepted: a 2xx answer is taken for a transient error.
HearAcceptedRetries(r) ==
  /\ step[r] = "waiting" /\ attempt[r] \in inbox[r]
  /\ GoTo(r, "retryable")
  /\ UNCHANGED <<status, attempt, intent, wire, inbox, cancelled, crashed, posted, inDoubt>>

\* A 2xx answer to this attempt's request.
HearAccepted(r) ==
  /\ step[r] = "waiting" /\ attempt[r] \in inbox[r]
  /\ GoTo(r, "confirming")
  /\ UNCHANGED <<status, attempt, intent, wire, inbox, cancelled, crashed, posted, inDoubt>>

\* A 4xx answer: the provider did not send.  429 is retried, 401, 403 and the
\* others are permanent.
HearRefused(r) ==
  /\ step[r] = "waiting" /\ attempt[r] \notin wire[r] \union inbox[r]
  /\ \E outcome \in {"failed", "retryable"} : GoTo(r, outcome)
  /\ UNCHANGED <<status, attempt, intent, wire, inbox, cancelled, crashed, posted, inDoubt>>

\* A 5xx answer is retried.  It says nothing about the request: a gateway may
\* answer 502 or 504 before, after or without the provider sending it.
HearServerError(r) ==
  /\ step[r] = "waiting"
  /\ GoTo(r, "retryable")
  /\ LeaveInDoubt(r)
  /\ UNCHANGED <<status, attempt, intent, wire, inbox, cancelled, crashed, posted>>

\* mark_sent commits in a transaction of its own.
MarkSent(r) ==
  /\ step[r] = "confirming"
  /\ intent' = [intent EXCEPT ![r] = "sent"]
  /\ GoTo(r, "confirmed")
  /\ UNCHANGED <<status, attempt, wire, inbox, cancelled, crashed, posted, inDoubt>>

\* _ok_result
Return(r) ==
  /\ step[r] = "confirmed"
  /\ GoTo(r, "ok")
  /\ UNCHANGED <<status, attempt, intent, wire, inbox, cancelled, crashed, posted, inDoubt>>

----------------------------------------------------------------------------
(* The provider (external) *)

\* Sends the message of a request that reached it.
ProviderAccepts(r, n) ==
  /\ n \in wire[r]
  /\ wire' = [wire EXCEPT ![r] = @ \ {n}]
  /\ inbox' = [inbox EXCEPT ![r] = @ \union {n}]
  /\ UNCHANGED <<status, attempt, step, intent, cancelled, crashed, posted, inDoubt>>

\* Refuses it, or never gets it.
ProviderRefuses(r, n) ==
  /\ n \in wire[r]
  /\ wire' = [wire EXCEPT ![r] = @ \ {n}]
  /\ UNCHANGED <<status, attempt, step, intent, inbox, cancelled, crashed, posted, inDoubt>>

----------------------------------------------------------------------------
HandlerStep(r) ==
  \/ PreflightFails(r) \/ PreflightPasses(r) \/ Begin(r) \/ Post(r)
  \/ HearAccepted(r) \/ HearRefused(r) \/ HearServerError(r) \/ MarkSent(r) \/ Return(r)

Next ==
  \E r \in Runs :
    \/ Claim(r) \/ Interrupted(r) \/ WriteOutcome(r) \/ WorkerDies(r)
    \/ SweepRunningOrphan(r) \/ SweepDlqRetrying(r) \/ Cancel(r)
    \/ HandlerStep(r)
    \/ \E n \in Attempts : ProviderAccepts(r, n) \/ ProviderRefuses(r, n)

Spec == Init /\ [][Next]_vars
----------------------------------------------------------------------------
(* Properties *)

\* A run reported SUCCEEDED has its message sent and its intent says so: a
\* dedup hit never reports a send that did not happen, even when the attempt
\* that sent it timed out or was cancelled.
SuccessMeansSent ==
  \A r \in Runs : status[r] = "SUCCEEDED" => intent[r] = "sent" /\ inbox[r] # {}

\* Every copy beyond the first is owed to an attempt that ended in doubt, by a
\* timeout, a crash, a failed mark_sent or a 5xx answer: a retry after an
\* answer that settles the matter (2xx or 4xx) never adds a copy.
DuplicatesOwedToDoubt ==
  \A r \in Runs : Cardinality(inbox[r]) <= Cardinality(inDoubt[r]) + 1

\* Once the intent is `sent` no further request leaves, whatever is
\* redelivered (late requests of earlier attempts may still be taken).
SentBlocksPost ==
  [][\A r \in Runs : intent[r] = "sent" => posted'[r] = posted[r]]_vars

\* After the worker died in the handler the run posts no further request: the
\* redelivery cannot claim it and Sweep C fails it.
CrashNotResent ==
  [][\A r \in crashed : posted'[r] = posted[r]]_vars
=============================================================================
