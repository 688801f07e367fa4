------------------------------ MODULE Admission ------------------------------
(***************************************************************************)
(* Admission of task.create.v1 over HTTP: what a request passes on its way *)
(* from the edge of an mcp-server process to the insert of its job.  At the *)
(* edge: load shedding, authentication, rate limit, in-flight cap.  In the *)
(* tool: backpressure, rate limit, three containment counts, the OAuth     *)
(* preflight, and create_job.                                              *)
(*                                                                         *)
(* Each check reads in a session of its own that is closed before the next *)
(* begins: nothing that was counted is locked until the insert.            *)
(***************************************************************************)
EXTENDS Integers, FiniteSets

CONSTANTS
  Requests,     \* task.create.v1 calls
  Servers,      \* mcp-server processes
  ServerOf,     \* the process that serves a request
  Users,        \* user_ids
  UserOf,       \* the verified user_id of a request
  Operator,     \* OPERATOR_USER_ID
  KeyOf,        \* idempotency_key of a request
  NoKey,        \* idempotency_key IS NULL
  Recurring,    \* requests for a recurring job
  Limit,        \* overload_concurrency_limit
  Burst,        \* rate_limit_burst_per_minute
  Daily,        \* rate_limit_daily
  RecurringCap, \* quota_active_recurring_per_user
  TotalCap,     \* quota_active_total_per_user
  GlobalCap,    \* quota_global_active_recurring
  Depths        \* the queue depths that occur, see DepthLevel

\* Below both thresholds, at or above overload_backpressure_queue_depth, at or
\* above overload_queue_depth_threshold.
DepthLevel == {"low", "busy", "flooded"}

ASSUME AdmissionAssumption ==
  /\ IsFiniteSet(Requests) /\ IsFiniteSet(Servers)
  /\ ServerOf \in [Requests -> Servers]
  /\ UserOf \in [Requests -> Users]
  /\ Recurring \subseteq Requests
  /\ Limit \in Nat /\ Burst \in Nat /\ Daily \in Nat
  /\ RecurringCap \in Nat \ {0} /\ TotalCap \in Nat \ {0} /\ GlobalCap \in Nat \ {0}
  /\ Depths \subseteq DepthLevel /\ "low" \in Depths

VARIABLES
  pc,        \* the last check a request has passed
  job,       \* the job it created: "none", "active" or "ended" (jobs.state)
  age,       \* the rate window jobs.created_at still lies in
  inflight,  \* ConcurrencyLimiter._inflight of each server
  depth,     \* the queue's depth
  cached     \* each server's cached depth, or "none"

vars == <<pc, job, age, inflight, depth, cached>>

----------------------------------------------------------------------------
(* Values *)

\* Steps of a request that holds a slot of its server's limiter, in order.
Inside == {"inside", "unpressed", "paced", "recurring", "total", "contained",
           "looked_up", "committed"}

TypeOK ==
  /\ pc \in [Requests -> {"arriving", "healthy", "rated", "done"} \union Inside]
  /\ job \in [Requests -> {"none", "active", "ended"}]
  /\ age \in [Requests -> {"minute", "day", "old"}]
  /\ inflight \in [Servers -> 0 .. Limit]
  /\ depth \in DepthLevel
  /\ cached \in [Servers -> DepthLevel \union {"none"}]

Init ==
  /\ pc = [q \in Requests |-> "arriving"]
  /\ job = [q \in Requests |-> "none"]
  /\ age = [q \in Requests |-> "minute"]
  /\ inflight = [s \in Servers |-> 0]
  /\ depth = "low"
  /\ cached = [s \in Servers |-> "none"]

----------------------------------------------------------------------------
(* Helpers *)

Exists(q) == job[q] # "none"
Active(S) == {q \in S : job[q] = "active"}
OfUser(u) == {q \in Requests : UserOf[q] = u}
IsOperator(q) == UserOf[q] = Operator

\* A request of the same user with the same idempotency_key.
SameKey(q, p) == q # p /\ KeyOf[q] # NoKey /\ KeyOf[q] = KeyOf[p] /\ UserOf[q] = UserOf[p]

\* check_rate_limit: jobs created within the minute, then within the day,
\* whatever became of them.
RateLimited(u) ==
  LET made == {q \in OfUser(u) : Exists(q)} IN
  \/ Cardinality({q \in made : age[q] = "minute"}) >= Burst
  \/ Cardinality({q \in made : age[q] # "old"}) >= Daily

\* get_queue_depth: the cached depth, or a new reading, which is 0 when SQS
\* does not answer.
Readings(s) == IF cached[s] # "none" THEN {cached[s]} ELSE {depth, "low"}

Advance(q, step) ==
  /\ pc' = [pc EXCEPT ![q] = step]
  /\ UNCHANGED <<job, age, inflight>>

\* The request is answered, or its client is gone: nothing here depends on what
\* it is told.  If it holds a slot it gives it back (the finally of
\* ConcurrencyLimiter.acquire).
Leave(q) ==
  /\ pc' = [pc EXCEPT ![q] = "done"]
  /\ inflight' = [inflight EXCEPT ![ServerOf[q]] = IF pc[q] \in Inside THEN @ - 1 ELSE @]
  /\ UNCHANGED age

----------------------------------------------------------------------------
(* The edge: _McpHttpEndpoint.__call__ *)

\* should_shed: CPU or RAM over its threshold.
ShedHot(q) ==
  /\ pc[q] = "arriving"
  /\ Leave(q)
  /\ UNCHANGED <<job, depth, cached>>

\* should_shed: the queue depth decides.
ReadDepth(q) ==
  /\ pc[q] = "arriving"
  /\ \E v \in Readings(ServerOf[q]) :
       /\ cached' = [cached EXCEPT ![ServerOf[q]] = v]
       /\ \/ v = "flooded" /\ Leave(q) /\ UNCHANGED job
          \/ v # "flooded" /\ Advance(q, "healthy")
  /\ UNCHANGED depth

\* _resolve_user_id: 401.  A request with a valid token goes on to EdgeRate.
Authenticate(q) ==
  /\ pc[q] = "healthy"
  /\ Leave(q)
  /\ UNCHANGED <<job, depth, cached>>

\* The rate limit of the edge, for every user: 429.
EdgeRate(q) ==
  /\ pc[q] = "healthy"
  /\ \/ RateLimited(UserOf[q]) /\ Leave(q) /\ UNCHANGED job
     \/ ~RateLimited(UserOf[q]) /\ Advance(q, "rated")
  /\ UNCHANGED <<depth, cached>>

\* Faulty variant of Acquire: refused only beyond the limit.
AcquireBeyond(q) ==
  LET s == ServerOf[q] IN
  /\ pc[q] = "rated"
  /\ \/ inflight[s] > Limit /\ Leave(q)
     \/ /\ inflight[s] <= Limit
        /\ pc' = [pc EXCEPT ![q] = "inside"]
        /\ inflight' = [inflight EXCEPT ![s] = @ + 1]
        /\ UNCHANGED <<age>>
  /\ UNCHANGED <<job, depth, cached>>

\* ConcurrencyLimiter.acquire: a slot, or 503 at once.
Acquire(q) ==
  LET s == ServerOf[q] IN
  /\ pc[q] = "rated"
  /\ \/ inflight[s] >= Limit /\ Leave(q)
     \/ /\ inflight[s] < Limit
        /\ pc' = [pc EXCEPT ![q] = "inside"]
        /\ inflight' = [inflight EXCEPT ![s] = @ + 1]
        /\ UNCHANGED <<age>>
  /\ UNCHANGED <<job, depth, cached>>

\* Faulty variant of Disconnect: the slot is not given back.
DisconnectLeaks(q) ==
  /\ pc[q] \in Inside
  /\ pc' = [pc EXCEPT ![q] = "done"]
  /\ UNCHANGED <<inflight, age, job, depth, cached>>

\* The client goes away and the request's task is cancelled: what it has not
\* committed rolls back, the slot is given back.
Disconnect(q) ==
  /\ pc[q] \in Inside
  /\ Leave(q)
  /\ UNCHANGED <<job, depth, cached>>

\* The server process restarts: its requests are gone, its counters fresh.
Restart(s) ==
  /\ pc' = [q \in Requests |-> IF ServerOf[q] = s /\ pc[q] # "arriving" THEN "done" ELSE pc[q]]
  /\ inflight' = [inflight EXCEPT ![s] = 0]
  /\ cached' = [cached EXCEPT ![s] = "none"]
  /\ UNCHANGED <<job, age, depth>>

----------------------------------------------------------------------------
(* The tool: _handle_task_create *)

\* A literal secret, a trigger id that is not a number, or arguments that
\* create_job or validate_chain refuse.
Invalid(q) ==
  /\ pc[q] \in {"inside", "unpressed", "contained", "looked_up"}
  /\ Leave(q)
  /\ UNCHANGED <<job, depth, cached>>

\* Backpressure, on the same cached depth.
Backpressure(q) ==
  /\ pc[q] = "inside"
  /\ \E v \in Readings(ServerOf[q]) :
       /\ cached' = [cached EXCEPT ![ServerOf[q]] = v]
       /\ \/ v # "low" /\ Leave(q) /\ UNCHANGED job
          \/ v = "low" /\ Advance(q, "unpressed")
  /\ UNCHANGED depth

\* The rate limit of the tool; the operator passes every check up to
\* create_job.
Pace(q) ==
  /\ pc[q] = "unpressed"
  /\ \/ IsOperator(q) /\ Advance(q, "contained")
     \/ ~IsOperator(q) /\ RateLimited(UserOf[q]) /\ Leave(q) /\ UNCHANGED job
     \/ ~IsOperator(q) /\ ~RateLimited(UserOf[q]) /\ Advance(q, "paced")
  /\ UNCHANGED <<depth, cached>>

\* A containment count: refused at the cap, otherwise on to the next step.
Count(q, S, cap, step) ==
  /\ \/ Cardinality(Active(S)) >= cap /\ Leave(q) /\ UNCHANGED job
     \/ Cardinality(Active(S)) < cap /\ Advance(q, step)
  /\ UNCHANGED <<depth, cached>>

\* Faulty variant of CountRecurring: refused only beyond the cap.
CountRecurringBeyond(q) ==
  /\ pc[q] = "paced"
  /\ Count(q, OfUser(UserOf[q]) \intersect Recurring, RecurringCap + 1, "recurring")

\* check_containment: three counts, one statement each, whatever kind of job
\* the request is for.
CountRecurring(q) ==
  /\ pc[q] = "paced"
  /\ Count(q, OfUser(UserOf[q]) \intersect Recurring, RecurringCap, "recurring")

CountTotal(q) ==
  /\ pc[q] = "recurring"
  /\ Count(q, OfUser(UserOf[q]), TotalCap, "total")

CountGlobal(q) ==
  /\ pc[q] = "total"
  /\ Count(q, Recurring, GlobalCap, "contained")

\* _check_oauth_connection: MISSING_CONNECTION.  A request whose connection is
\* in place goes on to LookUp.
CheckConnection(q) ==
  /\ pc[q] = "contained" /\ ~IsOperator(q)
  /\ Leave(q)
  /\ UNCHANGED <<job, depth, cached>>

\* create_job: the job of an earlier request with the same key is returned.
LookUp(q) ==
  /\ pc[q] = "contained"
  /\ \/ (\E p \in Requests : SameKey(q, p) /\ Exists(p)) /\ Leave(q) /\ UNCHANGED job
     \/ (\A p \in Requests : SameKey(q, p) => ~Exists(p)) /\ Advance(q, "looked_up")
  /\ UNCHANGED <<depth, cached>>

\* Faulty variant of Insert: without uq_jobs_user_idempotency.
InsertUnconstrained(q) ==
  /\ pc[q] = "looked_up"
  /\ job' = [job EXCEPT ![q] = "active"]
  /\ pc' = [pc EXCEPT ![q] = "committed"]
  /\ UNCHANGED <<age, inflight, depth, cached>>

\* The insert commits, or uq_jobs_user_idempotency refuses it and the
\* IntegrityError is answered as INTERNAL.
Insert(q) ==
  /\ pc[q] = "looked_up"
  /\ \/ /\ \E p \in Requests : SameKey(q, p) /\ Exists(p)
        /\ Leave(q) /\ UNCHANGED job
     \/ /\ \A p \in Requests : SameKey(q, p) => ~Exists(p)
        /\ job' = [job EXCEPT ![q] = "active"]
        /\ pc' = [pc EXCEPT ![q] = "committed"]
        /\ UNCHANGED <<age, inflight>>
  /\ UNCHANGED <<depth, cached>>

\* The job_id reaches the client, unless it is gone by now.
Respond(q) ==
  /\ pc[q] = "committed"
  /\ Leave(q)
  /\ UNCHANGED <<job, depth, cached>>

----------------------------------------------------------------------------
(* The world *)

\* The job is settled or cancelled (module Continuation).
JobEnds(q) ==
  /\ job[q] = "active"
  /\ job' = [job EXCEPT ![q] = "ended"]
  /\ UNCHANGED <<pc, age, inflight, depth, cached>>

\* created_at leaves the minute's window, then the day's.
JobAges(q) ==
  /\ Exists(q) /\ age[q] # "old"
  /\ age' = [age EXCEPT ![q] = IF @ = "minute" THEN "day" ELSE "old"]
  /\ UNCHANGED <<pc, job, inflight, depth, cached>>

QueueMoves ==
  /\ \E d \in Depths \ {depth} : depth' = d
  /\ UNCHANGED <<pc, job, age, inflight, cached>>

\* _QUEUE_DEPTH_TTL
CacheExpires(s) ==
  /\ cached[s] # "none"
  /\ cached' = [cached EXCEPT ![s] = "none"]
  /\ UNCHANGED <<pc, job, age, inflight, depth>>

----------------------------------------------------------------------------
EdgeStep(q) ==
  ShedHot(q) \/ ReadDepth(q) \/ Authenticate(q) \/ EdgeRate(q) \/ Acquire(q) \/ Disconnect(q)

ToolStep(q) ==
  \/ Invalid(q) \/ Backpressure(q) \/ Pace(q)
  \/ CountRecurring(q) \/ CountTotal(q) \/ CountGlobal(q)
  \/ CheckConnection(q) \/ LookUp(q) \/ Insert(q) \/ Respond(q)

Next ==
  \/ \E q \in Requests : EdgeStep(q) \/ ToolStep(q) \/ JobEnds(q) \/ JobAges(q)
  \/ \E s \in Servers : Restart(s) \/ CacheExpires(s)
  \/ QueueMoves

Spec == Init /\ [][Next]_vars
----------------------------------------------------------------------------
(* Properties *)

Slots == Limit * Cardinality(Servers)

\* The limiter's counter is exactly the number of requests it let in and that
\* have not ended, however they end: no slot leaks, none is given twice.
SlotsExact ==
  \A s \in Servers :
    inflight[s] = Cardinality({q \in Requests : ServerOf[q] = s /\ pc[q] \in Inside})

\* The containment caps are checked before the insert, not with it; still they
\* are exceeded by less than the number of requests the servers let in at once,
\* however creates, endings, disconnects and restarts interleave.
OvershootBounded ==
  /\ \A u \in Users \ {Operator} :
       /\ Cardinality(Active(OfUser(u) \intersect Recurring)) < RecurringCap + Slots
       /\ Cardinality(Active(OfUser(u))) < TotalCap + Slots
  /\ Cardinality(Active({q \in Recurring : ~IsOperator(q)})) < GlobalCap + Slots

\* Retrying a create with the same key never makes a second job, even when the
\* first try is still under way.
OneJobPerKey ==
  \A q, p \in Requests : SameKey(q, p) /\ Exists(q) => ~Exists(p)
=============================================================================
