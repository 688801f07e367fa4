------------------------------ MODULE JobViews ------------------------------
(***************************************************************************)
(* What a client sees of its jobs while module Continuation changes them:  *)
(* task.status (and the tasks://job resource) and task.list (and           *)
(* tasks://list).                                                          *)
(*                                                                         *)
(* Each SELECT is a step that sees what is committed by then.  One request *)
(* is followed at a time, since a read changes nothing.  The jobs are those*)
(* of one user.                                                            *)
(***************************************************************************)
EXTENDS Continuation, SequencesExt

CONSTANT PageSize   \* pageSize of task.list

ASSUME ViewAssumption == PageSize \in Nat \ {0} /\ IsFiniteSet(Existing)

VARIABLES
  created,   \* jobs whose create has begun, by created_at (the begin of the transaction)
  recency,   \* each job's runs by coalesce(start_at, scheduled_at), oldest first
  req        \* the request under way

viewVars == <<vars, created, recency, req>>

----------------------------------------------------------------------------
(* status_mapping.py *)

External == {"scheduled", "running", "completed", "failed", "cancelled"}

\* _MAPPING: to_external
ToExternal == [PENDING |-> "scheduled", QUEUED |-> "scheduled", RUNNING |-> "running",
               RETRYING |-> "running", SUCCEEDED |-> "completed", FAILED |-> "failed",
               CANCELLED |-> "cancelled"]

\* Faulty variant of ToInternalSet: a run that has been published is forgotten.
ToInternalSetNoQueued ==
  [scheduled |-> {"PENDING"}, running |-> {"RUNNING", "RETRYING"}, completed |-> {"SUCCEEDED"},
   failed |-> {"FAILED"}, cancelled |-> {"CANCELLED"}]

\* _REVERSE_MAPPING: to_internal_set
ToInternalSet ==
  [scheduled |-> {"PENDING", "QUEUED"}, running |-> {"RUNNING", "RETRYING"},
   completed |-> {"SUCCEEDED"}, failed |-> {"FAILED"}, cancelled |-> {"CANCELLED"}]

\* _JOB_STATE_MAPPING, for a job without a run
JobStateMapping ==
  [active |-> "scheduled", completed |-> "completed", cancelled |-> "cancelled"]

ToJobStates(s) == {st \in DOMAIN JobStateMapping : JobStateMapping[st] = s}

\* to_external_job_status, given the latest run's status or "none"
ToExternalJobStatus(state, latest) ==
  IF latest # "none" THEN ToExternal[latest] ELSE JobStateMapping[state]

----------------------------------------------------------------------------
(* What the queries read *)

\* The status of the newest of a job's runs: ORDER BY ... DESC LIMIT 1, and the
\* DISTINCT ON of the lists.
LatestRun(rs, order) == IF order = <<>> THEN "none" ELSE rs[Last(order)]

\* What job_runs.status may hold for a run of module Continuation, where PENDING
\* stands for QUEUED as well.
StoredAs(latest) == IF latest = "PENDING" THEN {"PENDING", "QUEUED"} ELSE {latest}

\* The status a job has at an instant.
JobStatus(j) == ToExternalJobStatus(jobState[j], LatestRun(runs[j], recency[j]))

\* The committed rows, by their place in `created`.
Committed == {i \in DOMAIN created : jobState[created[i]] # "absent"}

\* A row's place when the newest comes first: ORDER BY created_at DESC.
Rank(i) == Cardinality({k \in Committed : k >= i})

\* OFFSET (page - 1) * page_size LIMIT page_size, without a filter
Page(n) ==
  {created[i] : i \in {k \in Committed : (n - 1) * PageSize < Rank(k) /\ Rank(k) <= n * PageSize}}

\* The condition of task.list's status filter s, for a job's state and the status
\* of its newest run.
MatchesFilter(state, latest, s) ==
  \/ latest \in ToInternalSet[s]
  \/ latest = "none" /\ state \in ToJobStates(s)

----------------------------------------------------------------------------
Idle == [kind |-> "idle"]

ViewInit ==
  /\ Init
  /\ created \in SetToSeqs(Existing)
  /\ recency = [j \in Jobs |-> IF j \in Existing /\ Trigger[j] = NoJob THEN <<1>> ELSE <<>>]
  /\ req = Idle

StatusRequests ==
  [kind : {"status", "answered"}, job : Jobs, state : JobState, seen : SUBSET External,
   answer : External \union {"none"}]
ListRequests ==
  [kind : {"list", "listed"}, page : Nat, got : SUBSET Jobs, known : SUBSET Jobs]

ViewTypeOK ==
  /\ TypeOK
  /\ created \in Seq(Jobs) /\ IsInjective(created)
  /\ \A j \in Jobs :
       /\ jobState[j] # "absent" => j \in ToSet(created)
       /\ recency[j] \in Seq(Ticks) /\ IsInjective(recency[j])
       /\ ToSet(recency[j]) = {k \in Ticks : runs[j][k] # "none"}
  /\ req \in {Idle} \union StatusRequests \union ListRequests

----------------------------------------------------------------------------
(* The writers *)

\* Where a run can come to stand when it is inserted, or starts.  A cron tick is
\* later than everything before it.  A triggered run has the time of the event
\* that caused it, which may precede the start of the job's previous run.  A run
\* that starts has start_at = now.
Reordered(j, k, order) ==
  IF runs[j][k] = "none" THEN
    IF Trigger[j] = NoJob THEN {Append(order, k)}
                          ELSE {InsertAt(order, i, k) : i \in 1 .. Len(order) + 1}
  ELSE {Append(RemoveAt(order, i), k) : i \in {x \in DOMAIN order : order[x] = k}}

\* The runs of a job that a step inserts or starts (there is at most one).
Moved(j) ==
  {k \in Ticks : \/ runs[j][k] = "none" /\ runs'[j][k] # "none"
                 \/ runs[j][k] # "RUNNING" /\ runs'[j][k] = "RUNNING"}

Orders(j) == IF Moved(j) = {} THEN {recency[j]}
             ELSE UNION {Reordered(j, k, recency[j]) : k \in Moved(j)}

\* Faulty variant of CreateBegins: a repeated create stamps a second row.
CreateBeginsAgain(j) ==
  /\ jobState[j] = "absent"
  /\ created' = Append(created, j)
  /\ UNCHANGED <<vars, recency, req>>

\* A create's transaction begins: created_at is fixed, nothing is visible.
CreateBegins(j) ==
  /\ jobState[j] = "absent" /\ j \notin ToSet(created)
  /\ created' = Append(created, j)
  /\ UNCHANGED <<vars, recency, req>>

\* A step of the writers.  A status request under way notes what the job's status
\* has become, for the property StatusWasTrue.
Write ==
  /\ Next
  /\ \A j \in Jobs : jobState'[j] # "absent" \/ j \in creating' => j \in ToSet(created)
  /\ recency' \in {f \in [Jobs -> UNION {Orders(j) : j \in Jobs}] : \A j \in Jobs : f[j] \in Orders(j)}
  /\ req' = IF req.kind # "status" THEN req
            ELSE [req EXCEPT !.seen = @ \union
                   {ToExternalJobStatus(jobState'[req.job],
                                        LatestRun(runs'[req.job], recency'[req.job]))}]
  /\ UNCHANGED created

----------------------------------------------------------------------------
(* The readers *)

\* Faulty variant of StatusReadsJob: the state the job was created with.
StatusReadsJobCached(j) ==
  /\ req = Idle /\ jobState[j] # "absent"
  /\ req' = [kind |-> "status", job |-> j, state |-> "active",
             seen |-> {JobStatus(j)}, answer |-> "none"]
  /\ UNCHANGED <<vars, created, recency>>

\* get_job_with_runs: the job row
StatusReadsJob(j) ==
  /\ req = Idle /\ jobState[j] # "absent"
  /\ req' = [kind |-> "status", job |-> j, state |-> jobState[j],
             seen |-> {JobStatus(j)}, answer |-> "none"]
  /\ UNCHANGED <<vars, created, recency>>

\* get_job_with_runs: its newest run; then the answer
StatusReadsRuns ==
  /\ req.kind = "status"
  /\ req' = [req EXCEPT !.kind = "answered",
               !.answer = ToExternalJobStatus(req.state, LatestRun(runs[req.job], recency[req.job]))]
  /\ UNCHANGED <<vars, created, recency>>

\* Faulty variant of ListPage: the first answer's total fixes the number of pages.
ListPageFirstTotal ==
  LET n == IF req = Idle THEN 1 ELSE req.page + 1
      known == IF req = Idle THEN {created[i] : i \in Committed} ELSE req.known IN
  /\ req.kind \in {"idle", "list"}
  /\ req' = [kind |-> IF Cardinality(known) <= n * PageSize THEN "listed" ELSE "list", page |-> n,
             got |-> Page(n) \union (IF req = Idle THEN {} ELSE req.got), known |-> known]
  /\ UNCHANGED <<vars, created, recency>>

\* list_jobs without a filter, page after page until a page is not full.
ListPage ==
  LET n == IF req = Idle THEN 1 ELSE req.page + 1 IN
  /\ req.kind \in {"idle", "list"}
  /\ req' = [kind |-> IF Cardinality(Page(n)) < PageSize THEN "listed" ELSE "list", page |-> n,
             got |-> Page(n) \union (IF req = Idle THEN {} ELSE req.got),
             known |-> IF req = Idle THEN {created[i] : i \in Committed} ELSE req.known]
  /\ UNCHANGED <<vars, created, recency>>

\* The answer is sent.
Replied ==
  /\ req.kind \in {"answered", "listed"}
  /\ req' = Idle
  /\ UNCHANGED <<vars, created, recency>>

ViewNext ==
  \/ Write
  \/ \E j \in Jobs : CreateBegins(j) \/ StatusReadsJob(j)
  \/ StatusReadsRuns \/ ListPage \/ Replied

ViewSpec == ViewInit /\ [][ViewNext]_viewVars
----------------------------------------------------------------------------
(* Properties *)

\* task.status answers a status that the job had at some instant of the request,
\* although the job and its runs are read by two statements: a run that appears
\* between them never mixes with the older job state into a third status.
StatusWasTrue == req.kind = "answered" => req.answer \in req.seen

\* A client that reads page after page until one is not full has seen every job
\* that existed when it began, although jobs are added, and commit out of the
\* order of their created_at, between two pages.
PagesComplete == req.kind = "listed" => req.known \subseteq req.got

\* task.list's status filter and the status it shows agree: a job is found under
\* the status shown for it, and under no other.
FoundUnderItsStatus ==
  \A j \in Jobs, s \in External :
    jobState[j] # "absent" =>
      \A latest \in StoredAs(LatestRun(runs[j], recency[j])) :
        MatchesFilter(jobState[j], latest, s) <=> ToExternalJobStatus(jobState[j], latest) = s
=============================================================================
