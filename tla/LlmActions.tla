----------------------------- MODULE LlmActions -----------------------------
(***************************************************************************)
(* llm_summarize and llm_polish: a worker executes a run that sends a text *)
(* to the operator's LLM provider.  The text is a parameter or the result  *)
(* of another run; the tokens are charged to the user's daily budget and   *)
(* to a ceiling over all users of the month.                               *)
(*                                                                         *)
(* The budget is read before the call and written after it, each in a      *)
(* transaction of its own, and nothing is reserved in between.  Claims,    *)
(* leases and sweeps are module RunLifecycle's: here a run is ready, is    *)
(* executed by one worker, and is ready again when the execution fails in  *)
(* a retryable way or its worker dies (both actions are idempotent=True).  *)
(***************************************************************************)
EXTENDS Integers, FiniteSets

CONSTANTS
  Runs,        \* runs of llm_summarize and llm_polish jobs
  Polish,      \* those of llm_polish jobs
  Sources,     \* runs of other actions
  NoRun,       \* "no run"
  Users,       \* user_ids
  UserOf,      \* job_runs.user_id
  Params,      \* action_params of an LLM run: "text", "none", or its from_run_id
  Cause,       \* wait_for_run_id: the run that triggered it, or NoRun
  Workers,     \* worker processes
  Daily,       \* llm_daily_token_budget_per_user
  HasCeiling,  \* llm_global_monthly_token_ceiling is set
  Ceiling,     \* its value
  MaxCost,     \* the most tokens one call can use (input and output are capped)
  LastDay,     \* the last of the UTC days 1, 2, ... (a bound)
  MonthStart,  \* the first day of each day's month
  MaxTries     \* bound on the executions of all runs

AllRuns == Runs \union Sources
Days == 1 .. LastDay

ASSUME LlmAssumption ==
  /\ Polish \subseteq Runs
  /\ Runs \intersect Sources = {}
  /\ NoRun \notin AllRuns
  /\ AllRuns \intersect {"text", "none"} = {}
  /\ UserOf \in [AllRuns -> Users]
  /\ Params \in [Runs -> {"text", "none"} \union AllRuns]
  /\ Cause \in [Runs -> AllRuns \union {NoRun}]
  /\ IsFiniteSet(Workers) /\ IsFiniteSet(Users)
  /\ Daily \in Nat \ {0} /\ Ceiling \in Nat \ {0} /\ MaxCost \in Nat \ {0}
  /\ HasCeiling \in BOOLEAN
  /\ LastDay \in Nat \ {0}
  /\ MonthStart \in [Days -> Days]
  /\ \A d \in Days : MonthStart[d] <= d
  /\ \A d, e \in Days : d <= e => MonthStart[d] <= MonthStart[e]
  /\ MaxTries \in Nat

VARIABLES
  day,         \* today, UTC
  used,        \* llm_token_budgets.tokens_used, by user and budget_date
  row,         \* job_runs.status, as far as it matters here
  result,      \* job_runs.result: the users whose data it holds, {} for NULL
  tries,       \* executions so far (bounded by MaxTries)
  pc,          \* what each worker is doing
  wRun,        \* the run it executes
  wText,       \* the users whose data are in the text it sends
  wDay,        \* `today` of its budget check
  wCost,       \* total_tokens of the answer it received
  billed,      \* history: tokens the provider charged, by user
  unrecorded   \* history: of those, the ones no record can follow any more

rowVars    == <<row, result, tries>>
workerVars == <<pc, wRun, wText, wDay, wCost>>
vars == <<day, used, row, result, tries, pc, wRun, wText, wDay, wCost,
          billed, unrecorded>>

----------------------------------------------------------------------------
(* Values *)

Ended == {"SUCCEEDED", "FAILED"}

\* Program points of execute(): input resolved, ceiling passed, budget passed,
\* answer received, usage recorded.
Executing == {"claimed", "resolved", "under_ceiling", "allowed", "answered", "recorded"}

TypeOK ==
  /\ day \in Days
  /\ used \in [Users \X Days -> Nat]
  /\ row \in [AllRuns -> {"absent", "ready", "running", "retrying"} \union Ended]
  /\ result \in [AllRuns -> SUBSET Users]
  /\ tries \in 0 .. MaxTries
  /\ pc \in [Workers -> {"idle"} \union Executing]
  /\ wRun \in [Workers -> Runs \union {NoRun}]
  /\ \A w \in Workers : pc[w] # "idle" => wRun[w] \in Runs
  /\ wText \in [Workers -> SUBSET Users]
  /\ wDay \in [Workers -> Days]
  /\ wCost \in [Workers -> 0 .. MaxCost]
  /\ billed \in [Users -> Nat]
  /\ unrecorded \in [Users -> Nat]

\* A run with a cause is materialized when its cause has ended.
Init ==
  /\ day = 1
  /\ used = [ud \in Users \X Days |-> 0]
  /\ row = [r \in AllRuns |-> IF r \in Runs /\ Cause[r] # NoRun THEN "absent" ELSE "ready"]
  /\ result = [r \in AllRuns |-> {}]
  /\ tries = 0
  /\ pc = [w \in Workers |-> "idle"]
  /\ wRun = [w \in Workers |-> NoRun]
  /\ wText = [w \in Workers |-> {}]
  /\ wDay = [w \in Workers |-> 1]
  /\ wCost = [w \in Workers |-> 0]
  /\ billed = [u \in Users |-> 0]
  /\ unrecorded = [u \in Users |-> 0]

----------------------------------------------------------------------------
(* Helpers *)

User(w) == UserOf[wRun[w]]

\* The sum of f over S, as the number of tokens in S when each x has f[x] of them.
Total(f, S) == Cardinality(UNION {{x} \X (1 .. f[x]) : x \in S})

\* The worker goes on to the next step of execute().
Step(w, step) ==
  /\ pc' = [pc EXCEPT ![w] = step]
  /\ UNCHANGED wRun

\* The execution is over, however.
Release(w) ==
  /\ pc' = [pc EXCEPT ![w] = "idle"]
  /\ wRun' = [wRun EXCEPT ![w] = NoRun]
  /\ wText' = [wText EXCEPT ![w] = {}]
  /\ wDay' = [wDay EXCEPT ![w] = 1]
  /\ wCost' = [wCost EXCEPT ![w] = 0]

\* ActionResult(ok=False, retryable=False): _write_terminal(FAILED).
EndFailed(w) ==
  /\ Release(w)
  /\ row' = [row EXCEPT ![wRun[w]] = "FAILED"]
  /\ UNCHANGED <<result, tries>>

\* A retryable failure: _write_retrying.
EndRetrying(w) ==
  /\ Release(w)
  /\ row' = [row EXCEPT ![wRun[w]] = "retrying"]
  /\ UNCHANGED <<result, tries>>

\* The usage rows a check of day d counts for the ceiling: every user's, from
\* the first day of d's month on.
MonthTotal(d) == Total(used, Users \X {e \in Days : e >= MonthStart[d]})

----------------------------------------------------------------------------
(* Runs of other actions, and materialization *)

\* A run of another action ends, with or without a result.
SourceEnds(p) ==
  /\ row[p] = "ready"
  /\ \/ /\ row' = [row EXCEPT ![p] = "SUCCEEDED"]
        /\ result' = [result EXCEPT ![p] = {UserOf[p]}]
     \/ /\ row' = [row EXCEPT ![p] = "FAILED"]
        /\ UNCHANGED result
  /\ UNCHANGED <<day, used, tries, workerVars, billed, unrecorded>>

\* materialize_triggered: the run exists once its cause has ended.
Materialize(r) ==
  /\ row[r] = "absent" /\ row[Cause[r]] \in Ended
  /\ row' = [row EXCEPT ![r] = "ready"]
  /\ UNCHANGED <<day, used, result, tries, workerVars, billed, unrecorded>>

----------------------------------------------------------------------------
(* _dispatch and _resolve_input *)

\* from_run_id after the executor has wired it: only when the params leave it
\* unset is it taken from wait_for_run_id.
FromRun(r) == IF Params[r] \in AllRuns THEN Params[r] ELSE Cause[r]

\* Faulty variant of Claim: the worker goes on although the run it claimed was
\* not loaded.
ClaimUnloaded(w, r) ==
  /\ pc[w] = "idle" /\ row[r] \in {"ready", "retrying"} /\ tries < MaxTries
  /\ tries' = tries + 1
  /\ row' = [row EXCEPT ![r] = "running"]
  /\ pc' = [pc EXCEPT ![w] = "claimed"]
  /\ UNCHANGED <<day, used, result, wRun, wText, wDay, wCost, billed, unrecorded>>

\* The params are validated before from_run_id is wired, and a model that names
\* no input, or both, does not validate: the run fails for good.
Claim(w, r) ==
  /\ pc[w] = "idle" /\ row[r] \in {"ready", "retrying"} /\ tries < MaxTries
  /\ tries' = tries + 1
  /\ \/ /\ Params[r] = "none"
        /\ row' = [row EXCEPT ![r] = "FAILED"]
        /\ UNCHANGED <<pc, wRun>>
     \/ /\ Params[r] # "none"
        /\ row' = [row EXCEPT ![r] = "running"]
        /\ pc' = [pc EXCEPT ![w] = "claimed"]
        /\ wRun' = [wRun EXCEPT ![w] = r]
  /\ UNCHANGED <<day, used, result, wText, wDay, wCost, billed, unrecorded>>

\* Faulty variant of ReadUpstream: any user's run is read.
ReadUpstreamUnscoped(r, u) == result[r]

\* read_upstream: the users whose data the text holds; {} for a run that is not
\* there, is another user's, failed, or has no result yet.
ReadUpstream(r, u) == IF r \in AllRuns /\ UserOf[r] = u THEN result[r] ELSE {}

\* _resolve_input: the params' text comes first, else resolve_or_terminal, which
\* fails the run for good when the upstream run has no result.  The clock is
\* read for the budget check that follows.
ResolveInput(w) ==
  LET r == wRun[w]
      text == IF Params[r] = "text" THEN {UserOf[r]} ELSE ReadUpstream(FromRun(r), UserOf[r])
  IN
  /\ pc[w] = "claimed"
  /\ \/ /\ text = {}
        /\ EndFailed(w)
     \/ /\ text # {}
        /\ Step(w, "resolved")
        /\ wText' = [wText EXCEPT ![w] = text]
        /\ wDay' = [wDay EXCEPT ![w] = day]
        /\ UNCHANGED <<rowVars, wCost>>
  /\ UNCHANGED <<day, used, billed, unrecorded>>

----------------------------------------------------------------------------
(* check_token_budget: two statements at READ COMMITTED *)

\* Faulty variant of CheckCeiling: this month's rows are looked up by today's
\* date.
CheckCeilingToday(w) ==
  /\ pc[w] = "resolved"
  /\ \/ /\ HasCeiling /\ Total(used, Users \X {wDay[w]}) >= Ceiling
        /\ EndFailed(w)
     \/ /\ ~(HasCeiling /\ Total(used, Users \X {wDay[w]}) >= Ceiling)
        /\ Step(w, "under_ceiling")
        /\ UNCHANGED <<rowVars, wText, wDay, wCost>>
  /\ UNCHANGED <<day, used, billed, unrecorded>>

\* GlobalCeilingExceeded, or on.
CheckCeiling(w) ==
  /\ pc[w] = "resolved"
  /\ \/ /\ HasCeiling /\ MonthTotal(wDay[w]) >= Ceiling
        /\ EndFailed(w)
     \/ /\ ~(HasCeiling /\ MonthTotal(wDay[w]) >= Ceiling)
        /\ Step(w, "under_ceiling")
        /\ UNCHANGED <<rowVars, wText, wDay, wCost>>
  /\ UNCHANGED <<day, used, billed, unrecorded>>

\* Faulty variant of CheckDaily: refused only beyond the budget.
CheckDailyBeyond(w) ==
  /\ pc[w] = "under_ceiling"
  /\ \/ used[<<User(w), wDay[w]>>] > Daily /\ EndFailed(w)
     \/ /\ used[<<User(w), wDay[w]>>] <= Daily
        /\ Step(w, "allowed")
        /\ UNCHANGED <<rowVars, wText, wDay, wCost>>
  /\ UNCHANGED <<day, used, billed, unrecorded>>

\* DailyBudgetExceeded, or Allow.
CheckDaily(w) ==
  /\ pc[w] = "under_ceiling"
  /\ \/ used[<<User(w), wDay[w]>>] >= Daily /\ EndFailed(w)
     \/ /\ used[<<User(w), wDay[w]>>] < Daily
        /\ Step(w, "allowed")
        /\ UNCHANGED <<rowVars, wText, wDay, wCost>>
  /\ UNCHANGED <<day, used, billed, unrecorded>>

----------------------------------------------------------------------------
(* LLMClient.complete *)

\* 2xx with content: the provider has charged c tokens, and says so in `usage`
\* or leaves `usage` out (0).
Answered(w, c) ==
  /\ pc[w] = "allowed"
  /\ Step(w, "answered")
  /\ billed' = [billed EXCEPT ![User(w)] = @ + c]
  /\ \E told \in {0, c} :
       /\ wCost' = [wCost EXCEPT ![w] = told]
       /\ unrecorded' = [unrecorded EXCEPT ![User(w)] = @ + c - told]
  /\ UNCHANGED <<day, used, rowVars, wText, wDay>>

\* 429, 5xx or a network error, or a timeout after which the provider has
\* charged all the same.
CallRetryable(w, c) ==
  /\ pc[w] = "allowed"
  /\ EndRetrying(w)
  /\ billed' = [billed EXCEPT ![User(w)] = @ + c]
  /\ unrecorded' = [unrecorded EXCEPT ![User(w)] = @ + c]
  /\ UNCHANGED <<day, used>>

\* Another 4xx, or an answer without choices, which was charged.
CallRefused(w, c) ==
  /\ pc[w] = "allowed"
  /\ EndFailed(w)
  /\ billed' = [billed EXCEPT ![User(w)] = @ + c]
  /\ unrecorded' = [unrecorded EXCEPT ![User(w)] = @ + c]
  /\ UNCHANGED <<day, used>>

----------------------------------------------------------------------------
(* record_token_usage and the end *)

\* Faulty variant of RecordUsage: the row's value is replaced.
RecordUsageReplaces(w) ==
  /\ pc[w] = "answered"
  /\ Step(w, "recorded")
  /\ used' = [used EXCEPT ![<<User(w), day>>] = wCost[w]]
  /\ wCost' = [wCost EXCEPT ![w] = 0]
  /\ UNCHANGED <<day, rowVars, wText, wDay, billed, unrecorded>>

\* The upsert adds to today's row, today being the day of the record.
RecordUsage(w) ==
  /\ pc[w] = "answered"
  /\ Step(w, "recorded")
  /\ used' = [used EXCEPT ![<<User(w), day>>] = @ + wCost[w]]
  /\ wCost' = [wCost EXCEPT ![w] = 0]
  /\ UNCHANGED <<day, rowVars, wText, wDay, billed, unrecorded>>

\* It fails and the exception is swallowed.
RecordFails(w) ==
  /\ pc[w] = "answered"
  /\ Step(w, "recorded")
  /\ wCost' = [wCost EXCEPT ![w] = 0]
  /\ unrecorded' = [unrecorded EXCEPT ![User(w)] = @ + wCost[w]]
  /\ UNCHANGED <<day, used, rowVars, wText, wDay, billed>>

\* ActionResult(ok=True): _write_terminal(SUCCEEDED).
Succeed(w) ==
  /\ pc[w] = "recorded"
  /\ Release(w)
  /\ row' = [row EXCEPT ![wRun[w]] = "SUCCEEDED"]
  /\ result' = [result EXCEPT ![wRun[w]] = wText[w]]
  /\ UNCHANGED <<day, used, tries, billed, unrecorded>>

----------------------------------------------------------------------------
(* The world *)

\* The worker dies, the action's 120 seconds pass, or a statement raises: the
\* run will be executed again, by _write_retrying or by Sweep C.
Interrupted(w) ==
  /\ pc[w] # "idle"
  /\ Release(w)
  /\ row' = [row EXCEPT ![wRun[w]] = "retrying"]
  /\ unrecorded' = [unrecorded EXCEPT ![User(w)] = @ + wCost[w]]
  /\ UNCHANGED <<day, used, result, tries, billed>>

\* The message went to the dead-letter queue and the sweep fails the run.
GiveUp(r) ==
  /\ row[r] = "retrying"
  /\ row' = [row EXCEPT ![r] = "FAILED"]
  /\ UNCHANGED <<day, used, result, tries, workerVars, billed, unrecorded>>

\* UTC midnight.
Midnight ==
  /\ day + 1 \in Days
  /\ day' = day + 1
  /\ UNCHANGED <<used, rowVars, workerVars, billed, unrecorded>>

----------------------------------------------------------------------------
Execute(w) ==
  \/ ResolveInput(w) \/ CheckCeiling(w) \/ CheckDaily(w)
  \/ \E c \in 1 .. MaxCost : Answered(w, c)
  \/ \E c \in 0 .. MaxCost : CallRetryable(w, c) \/ CallRefused(w, c)
  \/ RecordUsage(w) \/ RecordFails(w) \/ Succeed(w)

\* LlmSummarizeHandler.execute and LlmPolishHandler.execute take the same steps;
\* they differ in the prompt and in the key of the result.
ExecuteSummarize(w) == wRun[w] \notin Polish /\ Execute(w)
ExecutePolish(w) == wRun[w] \in Polish /\ Execute(w)

Next ==
  \/ \E p \in Sources : SourceEnds(p)
  \/ \E r \in Runs : Materialize(r) \/ GiveUp(r)
  \/ \E w \in Workers : \E r \in Runs : Claim(w, r)
  \/ \E w \in Workers : ExecuteSummarize(w) \/ ExecutePolish(w) \/ Interrupted(w)
  \/ Midnight

Spec == Init /\ [][Next]_vars
----------------------------------------------------------------------------
(* Properties *)

Slack == MaxCost * Cardinality(Workers)

\* The budget is checked, not reserved, and a call may be recorded on a later
\* day than it was checked on; still no day's recorded usage of a user passes
\* the daily budget by as much as one call of every worker.
DailyOvershoot ==
  \A u \in Users, d \in Days : used[<<u, d>>] < Daily + Slack

\* The same of the ceiling over all users, for every month.
CeilingOvershoot ==
  HasCeiling => \A d \in Days :
    Total(used, Users \X {e \in Days : MonthStart[e] = MonthStart[d]}) < Ceiling + Slack

\* Every charged token is in the ledger exactly once, or its record was lost in
\* a way the code accepts, or is still to be written: concurrent records add up,
\* and no retry counts a call twice.
LedgerExact ==
  \A u \in Users :
    billed[u] = Total(used, {u} \X Days) + unrecorded[u]
              + Total(wCost, {w \in Workers : pc[w] # "idle" /\ User(w) = u})

\* However runs feed one another, a run's result holds data of its own user
\* only: from_run_id cannot carry one user's output into another's chain.
OwnDataOnly ==
  \A r \in AllRuns : result[r] \subseteq {UserOf[r]}
=============================================================================
