--------------------------- MODULE PipelineProofs ---------------------------
(***************************************************************************)
(* Proofs about whole pipelines of Continuation: how deep they get, when   *)
(* their jobs settle, that no trigger is lost and no job is left behind.   *)
(* Except for the depth, they assume that one consumer runs at a time.     *)
(***************************************************************************)
EXTENDS ContinuationProofs

\* The deployment runs one continuation consumer.
SingleConsumer == \A c, x \in Consumers : c = x

\* No job is created after the start.
NoneCreated == Existing = Jobs

(* When a job is completed *)

\* The trigger of a job is there before the job.
ParentsExist ==
  \A j \in Jobs : jobState[j] # "absent" \/ j \in creating =>
    Trigger[j] = NoJob \/ jobState[Trigger[j]] # "absent"

\* A recurring job is never completed.
NeverCompleted == \A j \in Recurring : jobState[j] # "completed"

\* The jobs a consumer has listed, or inserts a run for, are still active, or
\* their pipeline has been stopped.
StillOpen(c) ==
  /\ \A d \in cDowns[c] : jobState[d] = "active" \/ Stopped(d)
  /\ \A j \in Jobs, k \in Ticks : <<j, k>> \in cSpawn[c] => jobState[j] = "active" \/ Stopped(j)

\* The jobs it settles do not recur, have no run, old or new, under way, and their
\* trigger is over or is settled with them.
SettlesIdle(c) ==
  \A j \in cSettle[c] :
    /\ j \notin Recurring /\ ~HasExecutingRun(j)
    /\ \A k \in Ticks : <<j, k>> \notin cSpawn[c]
    /\ \/ Trigger[j] = NoJob \/ Trigger[j] \in cSettle[c]
       \/ jobState[Trigger[j]] \in {"completed", "cancelled"}

\* With one consumer, this is inductive beside IInv.
SettleInv ==
  /\ ParentsExist /\ NeverCompleted /\ SettledExhausted
  /\ \A c \in Consumers : StillOpen(c) /\ SettlesIdle(c)

(* What follows an event *)

\* A run later than the first belongs to a pipeline with a recurring job.
OneTick ==
  \A j \in Jobs, k \in Ticks : k # 1 /\ runs[j][k] # "none" /\ ~Stopped(j) =>
    \E x \in {j} \union Upstream(j) : x \in Recurring

\* A triggered run follows a run that has ended and whose event has been handled.
Caused ==
  \A d \in Jobs, k \in Ticks :
    Trigger[d] # NoJob /\ runs[d][k] # "none" /\ ~Stopped(d) =>
      /\ runs[Trigger[d]][k] \in Terminal
      /\ \A s \in Terminal : <<Trigger[d], k, s>> \notin pending

\* The jobs that exist at the start are there.
Present == \A j \in Existing : jobState[j] # "absent"

\* A job is completed after the last event of its trigger.
SettledLast ==
  \A d \in Existing : Trigger[d] # NoJob /\ jobState[d] = "completed" /\ ~Stopped(d) =>
    \A e \in pending : e[1] # Trigger[d]

\* The event a consumer handles is unprocessed.
EventHeld(c) == cpc[c] # "idle" => cEvent[c] \in pending

\* The jobs the event may trigger are listed.
ListsAll(c) ==
  cpc[c] = "listed" =>
    \A d \in Existing : Trigger[d] = cEvent[c][1] /\ ~Stopped(d) => d \in cDowns[c]

\* Each job the event triggers gets its run or a drop.
Accounts(c) ==
  cpc[c] = "checked" =>
    \A d \in Existing :
      Trigger[d] = cEvent[c][1] /\ TriggersOn(d, cEvent[c][3]) /\ ~Stopped(d) =>
        \/ <<d, cEvent[c][2]>> \in cSpawn[c] \union cDrop[c]
        \/ runs[d][cEvent[c][2]] # "none"

\* The jobs it settles have no other event of their trigger to come.
SettlesLast(c) ==
  \A d \in cSettle[c] \intersect Existing : Trigger[d] # NoJob /\ ~Stopped(d) =>
    \A e \in pending : e[1] = Trigger[d] => e = cEvent[c]

\* With one consumer, this is inductive beside IInv and SettleInv.
AccountInv ==
  /\ Present /\ OneTick /\ Caused /\ SettledLast /\ TriggerAccounted
  /\ \A c \in Consumers : EventHeld(c) /\ ListsAll(c) /\ Accounts(c) /\ SettlesLast(c)

(* What is left to a job whose trigger is over *)

\* A job whose trigger was cancelled is under way or has an event of its own left.
OwnWork ==
  \A j \in Jobs : Trigger[j] # NoJob /\ jobState[j] = "active" /\ jobState[Trigger[j]] = "cancelled" =>
    HasExecutingRun(j) \/ \E e \in pending : e[1] = j

\* All active jobs downstream of the event's job are listed, unless it was loaded
\* as cancelled.
ListsActive(c) ==
  cpc[c] = "listed" /\ cSeen[c] # "cancelled" =>
    \A j \in Jobs : Trigger[j] = cEvent[c][1] /\ jobState[j] = "active" => j \in cDowns[c]

\* A job whose trigger is over, or is settled, is settled too, or has work left
\* besides the event that is handled.
LeavesWork(c) ==
  cpc[c] = "checked" =>
    \A j \in Jobs : Trigger[j] # NoJob /\ jobState[j] = "active" =>
      /\ jobState[Trigger[j]] = "cancelled" =>
           \/ HasExecutingRun(j) \/ j \in cSettle[c]
           \/ \E k \in Ticks : <<j, k>> \in cSpawn[c]
           \/ \E e \in pending : e[1] = j /\ e # cEvent[c]
      /\ jobState[Trigger[j]] = "completed" \/ Trigger[j] \in cSettle[c] =>
           \/ HasExecutingRun(j) \/ j \in cSettle[c]
           \/ \E k \in Ticks : <<j, k>> \in cSpawn[c]
           \/ \E e \in pending : e[1] \in {j, Trigger[j]} /\ e # cEvent[c]

\* With one consumer and all jobs there, this is inductive beside the others.
StrandInv ==
  /\ OwnWork /\ NotStranded
  /\ \A c \in Consumers : ListsActive(c) /\ LeavesWork(c)

----------------------------------------------------------------------------
(* The depth of a pipeline *)

\* The next row of the ancestor walk.
Above(S) == {Trigger[x] : x \in S} \ {NoJob}

\* f holds the first n rows of the walk from job j.
IsWalk(f, j, n) ==
  /\ f \in [1 .. n -> SUBSET Jobs]
  /\ f[1] = {j}
  /\ \A d \in 2 .. n : f[d] = Above(f[d - 1])

\* The walk goes up by jobs.
LEMMA AboveJobs ==
  ASSUME NEW S \in SUBSET Jobs
  PROVE  Above(S) \in SUBSET Jobs
  BY ContinuationAssumption DEF Above

\* The walk can be continued to any depth.
LEMMA WalkExists ==
  ASSUME NEW j \in Jobs, NEW N \in Nat \ {0}
  PROVE  \E f : IsWalk(f, j, N)
<1> SUFFICES ASSUME ~ \E f : IsWalk(f, j, N) PROVE FALSE
  OBVIOUS
<1> DEFINE Bad == {n \in Nat : n # 0 /\ ~ \E f : IsWalk(f, j, n)}
<1>1. PICK n \in Bad : \A m \in Bad : n <= m
  BY LeastNumber
<1>2. CASE n = 1
  <2>1. IsWalk([d \in 1 .. 1 |-> {j}], j, 1)
    BY DEF IsWalk
  <2> QED
    BY <1>1, <1>2, <2>1
<1>3. CASE n # 1
  <2>1. n - 1 \in Nat /\ n - 1 # 0 /\ n - 1 \notin Bad /\ n \in Nat
    BY <1>1, <1>3
  <2>2. PICK f : IsWalk(f, j, n - 1)
    BY <2>1
  <2> DEFINE g == [d \in 1 .. n |-> IF d < n THEN f[d] ELSE Above(f[n - 1])]
  <2>3. f[n - 1] \in SUBSET Jobs /\ \A d \in 1 .. n : d < n => f[d] \in SUBSET Jobs
    BY <2>1, <2>2 DEF IsWalk
  <2>4. Above(f[n - 1]) \in SUBSET Jobs
    BY <2>3, AboveJobs
  <2>5. g \in [1 .. n -> SUBSET Jobs] /\ g[1] = {j}
    BY <2>1, <2>2, <2>3, <2>4 DEF IsWalk
  <2>6. ASSUME NEW d \in 2 .. n PROVE g[d] = Above(g[d - 1])
    <3>1. g[d - 1] = f[d - 1]
      BY <2>1
    <3>2. CASE d = n
      BY <3>1, <3>2, <2>1
    <3>3. CASE d # n
      <4>1. d \in 2 .. n - 1 /\ g[d] = f[d]
        BY <3>3, <2>1
      <4> QED
        BY <3>1, <4>1, <2>2 DEF IsWalk
    <3> QED
      BY <3>2, <3>3
  <2>7. IsWalk(g, j, n)
    BY <2>5, <2>6 DEF IsWalk
  <2> QED
    BY <1>1, <2>7
<1> QED
  BY <1>2, <1>3

\* The ancestor query returns the number of rows of the walk.
LEMMA DepthOfWalk ==
  ASSUME NEW j \in Jobs
  PROVE  \E f : /\ IsWalk(f, j, MaxDepth + 2)
                /\ AncestorDepth(j) = Cardinality({d \in 1 .. MaxDepth + 2 : f[d] # {}})
<1> DEFINE Row(f, d) == IF d = 1 THEN {j} ELSE {Trigger[x] : x \in f[d - 1]} \ {NoJob}
           Rec(f) == f = [d \in 1 .. MaxDepth + 2 |-> Row(f, d)]
           a == CHOOSE f : Rec(f)
<1>0. MaxDepth + 2 \in Nat \ {0} /\ 1 \in 1 .. MaxDepth + 2
  BY ContinuationAssumption
<1>1. PICK w : IsWalk(w, j, MaxDepth + 2)
  BY <1>0, WalkExists
<1>2. Rec(w)
  <2>1. ASSUME NEW d \in 1 .. MaxDepth + 2 PROVE w[d] = Row(w, d)
    BY <1>0, <1>1 DEF IsWalk, Above
  <2>2. w = [d \in 1 .. MaxDepth + 2 |-> w[d]]
    BY <1>1 DEF IsWalk
  <2> QED
    BY <2>1, <2>2
<1>3. Rec(a)
  BY <1>2
<1>4. \A d \in 1 .. MaxDepth + 2 : a[d] = Row(a, d)
  BY <1>3
<1>5. \A d \in 1 .. MaxDepth + 2 : a[d] = w[d]
  <2> SUFFICES ASSUME NEW d \in 1 .. MaxDepth + 2, a[d] # w[d] PROVE FALSE
    OBVIOUS
  <2> DEFINE Differ == {n \in Nat : n \in 1 .. MaxDepth + 2 /\ a[n] # w[n]}
  <2> HIDE DEF a
  <2>1. PICK n \in Differ : \A m \in Differ : n <= m
    <3>1. d \in Differ
      BY ContinuationAssumption
    <3> QED
      BY <3>1, LeastNumber
  <2>2. a[n] = Row(a, n) /\ w[n] = Row(w, n)
    BY <1>2, <1>4, <2>1
  <2>3. n # 1
    BY <2>1, <2>2
  <2>4. n - 1 \in 1 .. MaxDepth + 2 /\ n - 1 \in Nat /\ ~(n <= n - 1)
    BY <2>1, <2>3, <1>0
  <2>5. a[n - 1] = w[n - 1]
    BY <2>1, <2>4
  <2>6. a[n] = w[n]
    BY <2>2, <2>3, <2>5
  <2> QED
    BY <2>1, <2>6
<1>6. {d \in 1 .. MaxDepth + 2 : a[d] # {}} = {d \in 1 .. MaxDepth + 2 : w[d] # {}}
  <2> HIDE DEF a
  <2> QED
    BY <1>5
<1>7. AncestorDepth(j) = Cardinality({d \in 1 .. MaxDepth + 2 : a[d] # {}})
  BY DEF AncestorDepth
<1> QED
  BY <1>1, <1>6, <1>7

\* Fewer ancestors than rows: a job triggered by one with a short walk has all the
\* jobs upstream of it on that walk, one to a row.
LEMMA WalkCounts ==
  ASSUME NEW j \in Jobs, Trigger[j] # NoJob, AncestorDepth(Trigger[j]) < MaxDepth
  PROVE  1 + Cardinality(Upstream(j)) <= MaxDepth
<1> DEFINE N == MaxDepth + 2
<1>0. Trigger[j] \in Jobs /\ MaxDepth \in Nat /\ N \in Nat /\ N >= 2 /\ 1 \in 1 .. N /\ N \in 1 .. N
  BY ContinuationAssumption
<1>1. PICK f : /\ IsWalk(f, Trigger[j], N)
               /\ AncestorDepth(Trigger[j]) = Cardinality({d \in 1 .. N : f[d] # {}})
  BY <1>0, DepthOfWalk
<1> DEFINE D == {d \in 1 .. N : f[d] # {}}
<1>2. /\ f \in [1 .. N -> SUBSET Jobs] /\ f[1] = {Trigger[j]}
      /\ \A d \in 2 .. N : f[d] = Above(f[d - 1])
  BY <1>1 DEF IsWalk
<1> HIDE DEF N
<1>3. IsFiniteSet(1 .. N) /\ Cardinality(1 .. N) = N
  BY <1>0, FS_Interval
<1>4. IsFiniteSet(D) /\ Cardinality(D) \in Nat /\ Cardinality(D) < MaxDepth
  <2>1. D \in SUBSET (1 .. N)
    OBVIOUS
  <2>2. IsFiniteSet(D)
    BY <2>1, <1>3, FS_Subset
  <2> QED
    BY <2>2, <1>1, FS_CardinalityType
\* A row holds one job.
<1>5. \A d \in 1 .. N : \A x, y \in f[d] : x = y
  <2> SUFFICES ASSUME NEW d \in 1 .. N, ~(\A x, y \in f[d] : x = y) PROVE FALSE
    OBVIOUS
  <2> DEFINE Bad == {n \in Nat : n \in 1 .. N /\ ~(\A x, y \in f[n] : x = y)}
  <2>1. d \in Bad
    BY <1>0
  <2>2. PICK n \in Bad : \A m \in Bad : n <= m
    BY <2>1, LeastNumber
  <2>3. n # 1
    BY <1>2, <2>2
  <2>4. n \in 2 .. N /\ n - 1 \in 1 .. N /\ n - 1 \in Nat /\ ~(n <= n - 1)
    BY <2>2, <2>3, <1>0
  <2>5. \A x, y \in f[n - 1] : x = y
    BY <2>2, <2>4
  <2>6. f[n] = Above(f[n - 1])
    BY <1>2, <2>4
  <2>7. \A x, y \in f[n] : x = y
    BY <2>5, <2>6 DEF Above
  <2> QED
    BY <2>2, <2>7
\* The walk ends before its bound.
<1>6. f[N] = {}
  <2> SUFFICES ASSUME f[N] # {} PROVE FALSE
    OBVIOUS
  <2>1. \A d \in 1 .. N : f[d] # {}
    <3> SUFFICES ASSUME NEW d \in 1 .. N, f[d] = {} PROVE FALSE
      OBVIOUS
    <3> DEFINE Bad == {n \in Nat : N - n \in 1 .. N /\ f[N - n] = {}}
    <3>1. N - d \in Bad
      BY <1>0
    <3>2. PICK n \in Bad : \A m \in Bad : n <= m
      BY <3>1, LeastNumber
    <3>3. n # 0 /\ n \in Nat /\ N - n \in 1 .. N /\ f[N - n] = {}
      BY <3>2, <1>0
    <3>4. /\ n - 1 \in Nat /\ N - (n - 1) \in 2 .. N /\ N - (n - 1) \in 1 .. N
          /\ (N - (n - 1)) - 1 = N - n /\ ~(n <= n - 1)
      BY <3>3, <1>0
    <3>5. f[N - (n - 1)] = Above(f[N - n])
      BY <1>2, <3>4
    <3>6. f[N - (n - 1)] = {}
      BY <3>3, <3>5 DEF Above
    <3> QED
      BY <3>2, <3>4, <3>6
  <2>2. D = 1 .. N
    BY <2>1
  <2>3. Cardinality(D) = N
    BY <2>2, <1>3
  <2> HIDE DEF D
  <2> QED
    BY <2>3, <1>4, <1>0 DEF N
\* So the jobs on it hold the trigger of each of them.
<1> DEFINE S == {x \in Jobs : \E d \in 1 .. N : x \in f[d]}
<1>7. \A y \in S \union {j} : Trigger[y] \in S \union {NoJob}
  <2>1. Trigger[j] \in S
    BY <1>0, <1>2
  <2>2. ASSUME NEW y \in S, Trigger[y] # NoJob PROVE Trigger[y] \in S
    <3>1. PICK d \in 1 .. N : y \in f[d]
      OBVIOUS
    <3>2. d # N
      BY <3>1, <1>6
    <3>3. d + 1 \in 2 .. N /\ d + 1 \in 1 .. N /\ (d + 1) - 1 = d
      BY <3>1, <3>2, <1>0
    <3>4. f[d + 1] = Above(f[d])
      BY <1>2, <3>3
    <3>5. Trigger[y] \in f[d + 1]
      BY <3>1, <3>4, <2>2 DEF Above
    <3> QED
      BY <3>3, <3>5, <1>2
  <2> QED
    BY <2>1, <2>2
<1>8. Upstream(j) \subseteq S
  BY <1>7 DEF Upstream
<1> DEFINE row == [x \in Upstream(j) |-> CHOOSE d \in 1 .. N : x \in f[d]]
<1>9. \A x \in Upstream(j) : row[x] \in 1 .. N /\ x \in f[row[x]]
  BY <1>8
<1>10. row \in Injection(Upstream(j), D)
  <2> HIDE DEF S
  <2>1. row \in [Upstream(j) -> D]
    BY <1>9
  <2>2. \A x, y \in Upstream(j) : row[x] = row[y] => x = y
    BY <1>9, <1>5
  <2> HIDE DEF row
  <2> QED
    BY <2>1, <2>2 DEF Injection, IsInjective
<1>11. IsFiniteSet(Upstream(j)) /\ Cardinality(Upstream(j)) <= Cardinality(D)
  BY <1>4, <1>10, FS_Injection
<1>12. Cardinality(Upstream(j)) \in Nat
  BY <1>11, FS_CardinalityType
<1>13. 1 + Cardinality(Upstream(j)) <= MaxDepth
  <2> HIDE DEF D
  <2> QED
    BY <1>0, <1>4, <1>11, <1>12
<1> QED
  BY <1>13

\* A job without a trigger has nothing upstream.
LEMMA RootUpstream ==
  ASSUME NEW j \in Jobs, Trigger[j] = NoJob
  PROVE  Upstream(j) = {}
<1>1. PICK E \in SUBSET Jobs : E = {}
  OBVIOUS
<1>2. \A y \in E \union {j} : Trigger[y] \in E \union {NoJob}
  BY <1>1
<1>3. \A x \in Upstream(j) : x \in E
  BY <1>2 DEF Upstream
<1> QED
  BY <1>1, <1>3

\* What a step may do to a job: it is created, by itself or after validation, and
\* once created it stays; completed and cancelled are for good.
Onward ==
  \A x \in Jobs :
    /\ jobState[x] \in {"completed", "cancelled"} => jobState'[x] = jobState[x]
    /\ jobState[x] = "active" => jobState'[x] # "absent"
    /\ jobState[x] = "absent" =>
         \/ jobState'[x] = "absent"
         \/ jobState'[x] = "active" /\ (Trigger[x] = NoJob \/ x \in creating)

\* What a step may do to the creates under way.
Validated ==
  \A x \in creating' :
    \/ x \in creating
    \/ /\ x \in Jobs /\ Trigger[x] # NoJob /\ jobState[Trigger[x]] = "active"
       /\ AncestorDepth(Trigger[x]) < MaxDepth

\* Every step moves the jobs onward.
LEMMA StepOnward ==
  ASSUME IInv, [Next]_vars
  PROVE  Onward /\ Validated
<1> USE DEF Onward, Validated
<1>1. ASSUME NEW j \in Jobs, CreateScheduled(j) \/ CreateValidates(j) \/ CreateCommits(j)
      PROVE  Onward /\ Validated
  <2>1. j \in creating => jobState[j] = "absent"
    BY DEF IInv, RowsInv, Existence
  <2> QED
    BY <1>1, <2>1 DEF CreateScheduled, CreateValidates, CreateCommits, IInv, TypeOK
<1>2. ASSUME NEW j \in Jobs, NEW k \in Ticks,
             \/ RunStarts(j, k) \/ RunRetries(j, k) \/ RunRecovered(j, k) \/ RunSwept(j, k)
             \/ \E s \in {"SUCCEEDED", "FAILED"} : RunEnds(j, k, s)
      PROVE  Onward /\ Validated
  <2>1. \/ UNCHANGED jobState
        \/ jobState' = [jobState EXCEPT ![j] = IF @ = "active" /\ SettledByWorker(j)
                                               THEN "completed" ELSE @]
    BY <1>2 DEF RunStarts, RunRetries, RunRecovered, RunSwept, RunEnds, jobVars
  <2>2. UNCHANGED creating
    BY <1>2 DEF RunStarts, RunRetries, RunRecovered, RunSwept, RunEnds, jobVars
  <2>3. Onward
    BY <2>1 DEF IInv, TypeOK, JobState
  <2>4. Validated
    BY <2>2
  <2> QED
    BY <2>3, <2>4
<1>3. ASSUME NEW c \in Consumers, ConsumerStep(c) \/ ConsumerAborts(c)
      PROVE  Onward /\ Validated
  <2>1. CASE ConsumerCommits(c)
    <3>1. \A j \in cSettle[c] : jobState[j] = "active"
      BY DEF IInv, TxInv, Settles
    <3> QED
      BY <2>1, <3>1 DEF ConsumerCommits
  <2>2. CASE ~ConsumerCommits(c)
    BY <1>3, <2>2 DEF ConsumerStep, ConsumerAborts, ConsumerLoads, ConsumerLists, ConsumerChecks, jobVars
  <2> QED
    BY <2>1, <2>2
<1>4. ASSUME NEW j \in Jobs, CancelBegins(j) \/ CancelCommits(j)
      PROVE  Onward /\ Validated
  <2>1. CASE CancelBegins(j)
    BY <2>1 DEF CancelBegins, jobVars
  <2>2. CASE CancelCommits(j)
    <3>1. jobState[j] = "active"
      BY <2>2 DEF CancelCommits, IInv, RowsInv, CancelsHold
    <3> DEFINE st == [jobState EXCEPT ![j] = "cancelled"]
               settled == CancelCascade(j, st, {x \in Jobs : HasExecutingRun(x)})
    <3>2. \A x \in settled : st[x] = "active"
      <4>1. PICK t, b : t = st /\ b = {x \in Jobs : HasExecutingRun(x)}
        OBVIOUS
      <4>2. \A x \in SettleCheck(Downstream({j}), t, b) : t[x] = "active"
        BY SettleCheckFacts
      <4> QED
        BY <4>1, <4>2 DEF CancelCascade
    <3>3. /\ jobState' = [x \in Jobs |-> IF x \in settled THEN "completed" ELSE st[x]]
          /\ UNCHANGED creating
      BY <2>2 DEF CancelCommits
    <3> HIDE DEF settled
    <3> QED
      BY <3>1, <3>2, <3>3 DEF IInv, TypeOK
  <2> QED
    BY <1>4, <2>1, <2>2
<1>5. CASE UNCHANGED vars
  BY <1>5 DEF vars
<1> QED
  BY <1>1, <1>2, <1>3, <1>4, <1>5 DEF Next, CreateStep, RunStep, CancelStep

\* No pipeline gets deeper than MAX_CHAIN_DEPTH, whatever is created at the same
\* time: the bounded ancestor query never undercounts, and the chain above a job
\* does not change after it was validated.
THEOREM PipelinesStayShallow == Spec => []DepthBounded
<1> DEFINE Shallow(j) == 1 + Cardinality(Upstream(j)) <= MaxDepth
           DInv == /\ \A j \in Jobs : jobState[j] # "absent" => Shallow(j)
                   /\ \A j \in creating : Shallow(j)
<1>1. Init => DInv
  BY ChainAssumption DEF Init
<1>2. IInv /\ DInv /\ [Next]_vars => DInv'
  <2> SUFFICES ASSUME IInv, DInv, [Next]_vars PROVE DInv'
    OBVIOUS
  <2>1. Onward /\ Validated
    BY StepOnward
  <2>2. ASSUME NEW j \in Jobs, Trigger[j] = NoJob PROVE Shallow(j)
    BY <2>2, RootUpstream, FS_EmptySet, ContinuationAssumption
  <2>3. ASSUME NEW j \in Jobs, jobState'[j] # "absent" PROVE Shallow(j)
    BY <2>1, <2>2, <2>3 DEF Onward, IInv, TypeOK, JobState
  <2>4. ASSUME NEW j \in creating' PROVE Shallow(j)
    BY <2>1, WalkCounts DEF Validated
  <2> QED
    BY <2>3, <2>4
<1>3. DInv => DepthBounded
  BY DEF DepthBounded
<1> QED
  BY <1>1, <1>2, <1>3, ContinuationInvariance, PTL DEF Spec

----------------------------------------------------------------------------
(* Pipelines that are stopped *)

\* What is upstream of a job's trigger is upstream of the job.
LEMMA UpstreamOfTrigger ==
  ASSUME NEW d \in Jobs, Trigger[d] # NoJob
  PROVE  Trigger[d] \in Upstream(d) /\ Upstream(Trigger[d]) \subseteq Upstream(d)
<1>1. Trigger[d] \in Jobs
  BY ContinuationAssumption
<1>2. ASSUME NEW S \in SUBSET Jobs, \A y \in S \union {d} : Trigger[y] \in S \union {NoJob}
      PROVE  Trigger[d] \in S /\ \A x \in Upstream(Trigger[d]) : x \in S
  <2>1. Trigger[d] \in S
    BY <1>2
  <2>2. \A y \in S \union {Trigger[d]} : Trigger[y] \in S \union {NoJob}
    BY <1>2, <2>1
  <2> QED
    BY <2>1, <2>2 DEF Upstream
<1> QED
  BY <1>1, <1>2 DEF Upstream

\* A job is stopped with its trigger.
LEMMA StoppedWithTrigger ==
  ASSUME NEW d \in Jobs, Trigger[d] # NoJob, Stopped(Trigger[d])
  PROVE  Stopped(d)
  BY UpstreamOfTrigger DEF Stopped

\* The same after a step.
LEMMA StoppedWithTriggerNext ==
  ASSUME NEW d \in Jobs, Trigger[d] # NoJob, Stopped(Trigger[d])'
  PROVE  Stopped(d)'
  BY UpstreamOfTrigger DEF Stopped

\* A pipeline that is stopped stays so.
LEMMA StaysStopped ==
  ASSUME Onward, NEW j \in Jobs, Stopped(j)
  PROVE  Stopped(j)'
<1>1. {j} \union Upstream(j) \subseteq Jobs
  BY DEF Upstream
<1> QED
  BY <1>1 DEF Stopped, Onward

\* What the cascade of a cancel settles is downstream of the cancelled job.
LEMMA CascadeStopped ==
  ASSUME NEW j \in Jobs, NEW st, NEW busy, jobState'[j] = "cancelled",
         NEW x \in CancelCascade(j, st, busy)
  PROVE  Stopped(x)'
<1> DEFINE settled == CancelCascade(j, st, busy)
           W == {y \in settled : ~Stopped(y)'}
<1>1. \A y \in settled : y \in Jobs /\ (Trigger[y] = j \/ Trigger[y] \in settled)
  BY SettleCheckFacts DEF CancelCascade, Downstream
<1>2. ASSUME NEW y \in W, Trigger[y] \notin W PROVE FALSE
  <2>1. Trigger[y] \in Jobs /\ Trigger[y] # NoJob /\ y \in Jobs
    BY <1>1, ContinuationAssumption
  <2>2. Trigger[y] = j \/ Stopped(Trigger[y])'
    BY <1>1, <1>2
  <2>3. Stopped(Trigger[y])'
    BY <2>2 DEF Stopped
  <2> QED
    BY <2>1, <2>3, StoppedWithTriggerNext
<1>3. W \in SUBSET Jobs
  BY <1>1
<1>4. W = {}
  BY <1>2, <1>3, ChainAssumption
<1> QED
  BY <1>4

----------------------------------------------------------------------------
(* The steps of everyone but the consumer *)

\* Runs: none disappears, the first one comes with its job, none of a job that
\* goes on comes to execute again, and one that ends stays and leaves its event.
RunsOnward ==
  \A x \in Jobs, y \in Ticks :
    /\ runs[x][y] # "none" => runs'[x][y] # "none"
    /\ runs[x][y] = "none" /\ runs'[x][y] # "none" =>
         jobState[x] = "absent" /\ Trigger[x] = NoJob /\ y = 1 /\ runs'[x][y] = "PENDING"
    /\ jobState[x] \in {"active", "completed"} /\ runs'[x][y] \in Executing => runs[x][y] \in Executing
    /\ jobState'[x] # "cancelled" /\ runs[x][y] \in Terminal => runs'[x][y] = runs[x][y]
    /\ jobState'[x] # "cancelled" /\ runs'[x][y] \in Terminal /\ runs[x][y] \notin Terminal =>
         <<x, y, runs'[x][y]>> \in pending'

\* Events: none is lost, and a new one is about a run that was executing.
EventsOnward ==
  /\ pending \subseteq pending'
  /\ \A x \in Jobs, y \in Ticks, s \in Terminal :
       <<x, y, s>> \in pending' /\ <<x, y, s>> \notin pending =>
         jobState'[x] = "cancelled" \/ (runs[x][y] \in Executing /\ runs'[x][y] = s)

\* The active jobs that x triggers are under way.
UnderWay(x) ==
  \A d \in Jobs : Trigger[d] = x /\ jobState'[d] = "active" =>
    \E y \in Ticks : runs'[d][y] \in Executing

\* A job is completed by its worker, with its event, or by a cancel upstream, with
\* what follows it.
Completes ==
  \A x \in Jobs : jobState[x] = "active" /\ jobState'[x] = "completed" =>
    /\ \A y \in Ticks : runs'[x][y] \notin Executing
    /\ \/ /\ SettledByWorker(x)
          /\ \E y \in Ticks, s \in Terminal : <<x, y, s>> \in pending' /\ runs[x][y] \in Executing
       \/ /\ Stopped(x)' /\ Trigger[x] # NoJob /\ UnderWay(x)
          /\ jobState'[Trigger[x]] \in {"completed", "cancelled"}

\* A cancel settles what follows the cancelled job, unless it is under way.
Cancels == \A x \in Jobs : jobState[x] = "active" /\ jobState'[x] = "cancelled" => UnderWay(x)

\* A step that is not the consumer's: its transactions are left alone.
World == /\ RunsOnward /\ EventsOnward /\ Completes /\ Cancels
         /\ UNCHANGED <<dropped, txVars>>

\* Creates.
LEMMA CreateWorld ==
  ASSUME IInv, NEW j \in Jobs, CreateScheduled(j) \/ CreateValidates(j) \/ CreateCommits(j)
  PROVE  World
<1> USE DEF IInv
<1>1. /\ UNCHANGED <<pending, dropped, txVars>>
      /\ \A x \in Jobs : jobState'[x] = jobState[x] \/ (jobState[x] = "absent" /\ jobState'[x] = "active")
  <2>1. j \in creating => jobState[j] = "absent"
    BY DEF RowsInv, Existence
  <2> QED
    BY <2>1 DEF CreateScheduled, CreateValidates, CreateCommits, runVars, TypeOK
<1>2. \/ UNCHANGED runs
      \/ /\ jobState[j] = "absent" /\ Trigger[j] = NoJob
         /\ runs' = [runs EXCEPT ![j] = FirstRun(j)]
  BY DEF CreateScheduled, CreateValidates, CreateCommits, runVars
<1>3. RunsOnward
  <2>1. CASE UNCHANGED runs
    BY <2>1 DEF RunsOnward
  <2>2. CASE ~UNCHANGED runs
    <3>1. \A x \in Jobs, y \in Ticks :
            \/ runs'[x][y] = runs[x][y]
            \/ x = j /\ runs[x][y] = "none" /\ (runs'[x][y] = "none" \/ (y = 1 /\ runs'[x][y] = "PENDING"))
      BY <1>2, <2>2 DEF RowsInv, Existence, FirstRun, TypeOK
    <3> QED
      BY <3>1, <1>2, <2>2, Statuses DEF RunsOnward, Terminal
  <2> QED
    BY <2>1, <2>2
<1> QED
  BY <1>1, <1>3 DEF World, EventsOnward, Completes, Cancels

\* Runs.
LEMMA RunWorld ==
  ASSUME IInv, NEW j \in Jobs, NEW k \in Ticks,
         \/ RunStarts(j, k) \/ RunRetries(j, k) \/ RunRecovered(j, k) \/ RunSwept(j, k)
         \/ \E s \in {"SUCCEEDED", "FAILED"} : RunEnds(j, k, s)
  PROVE  World
<1> USE DEF IInv
<1>1. PICK v \in Executing \union Terminal : RunMoves(j, k, v) /\ RunKeeps(j, k, v)
  BY RunShapes
<1>2. RunFacts(j, k)
  BY <1>1, RunEffects
<1>3. Onward
  BY StepOnward DEF Next, RunStep
<1>4. \A x \in Jobs : jobState[x] = "cancelled" <=> jobState'[x] = "cancelled"
  BY <1>2, <1>3 DEF RunFacts, JobsAfter, Onward
<1>5. RunsOnward
  <2>1. RunsAfter /\ EventsAfter
    BY <1>2 DEF RunFacts
  <2> QED
    BY <2>1, <1>4 DEF RunsAfter, EventsAfter, RunsOnward
<1>6. EventsOnward
  <2>1. pending \subseteq pending'
    BY <1>2 DEF RunFacts
  <2>2. ASSUME NEW x \in Jobs, NEW y \in Ticks, NEW s \in Terminal,
               <<x, y, s>> \in pending', <<x, y, s>> \notin pending
        PROVE  jobState'[x] = "cancelled" \/ (runs[x][y] \in Executing /\ runs'[x][y] = s)
    <3>1. x = j /\ y = k /\ s = runs'[j][k]
      BY <2>2, <1>2 DEF RunFacts
    <3> QED
      BY <3>1, <1>1, <1>4 DEF RunKeeps
  <2> QED
    BY <2>1, <2>2 DEF EventsOnward
<1>7. Completes
  <2> SUFFICES ASSUME NEW x \in Jobs, jobState[x] = "active", jobState'[x] = "completed"
               PROVE  /\ \A y \in Ticks : runs'[x][y] \notin Executing
                      /\ SettledByWorker(x)
                      /\ \E y \in Ticks, s \in Terminal : <<x, y, s>> \in pending' /\ runs[x][y] \in Executing
    BY DEF Completes
  <2>1. PICK s \in {"SUCCEEDED", "FAILED"} : RunEnds(j, k, s)
    BY DEF RunStarts, RunRetries, RunRecovered, RunSwept, jobVars
  <2>2. x = j /\ SettledByWorker(j) /\ <<j, k>> \in working /\ <<j, k, s>> \in pending'
    BY <2>1 DEF RunEnds, TypeOK
  <2>3. runs[j][k] \in Executing
    BY <2>2, Statuses DEF RowsInv, WorkersRun
  <2>4. \A y \in Ticks : runs'[j][y] = IF y = k THEN s ELSE runs[j][y]
    BY <2>1 DEF RunEnds, TypeOK
  <2>5. \A y \in Ticks : y # k => runs[j][y] \notin Executing
    BY <2>2, <2>3 DEF OneExecutingRun
  <2>6. s \in Terminal /\ s \notin Executing
    BY Statuses DEF Terminal
  <2> QED
    BY <2>2, <2>3, <2>4, <2>5, <2>6
<1>8. Cancels
  BY <1>4 DEF Cancels
<1> QED
  BY <1>2, <1>5, <1>6, <1>7, <1>8 DEF World, RunFacts

\* settle_check leaves out no job that it reaches and that could be settled.
LEMMA SettleCheckTakes ==
  ASSUME NEW roots, NEW st, NEW busy, NEW d \in Jobs \ Recurring,
         st[d] = "active", d \notin busy,
         \/ d \in roots /\ (Trigger[d] = NoJob \/ st[Trigger[d]] # "active")
         \/ Trigger[d] \in SettleCheck(roots, st, busy)
  PROVE  d \in SettleCheck(roots, st, busy)
<1> DEFINE T == SettleCheck(roots, st, busy) \union {d}
<1>1. T \in SUBSET (Jobs \ Recurring)
  BY SettleCheckFacts
<1>2. \A j \in T :
        /\ st[j] = "active" /\ j \notin busy
        /\ Trigger[j] = NoJob \/ Trigger[j] \in T \/ st[Trigger[j]] # "active"
        /\ j \in roots \/ Trigger[j] \in T
  BY SettleCheckFacts
<1>3. d \in T
  OBVIOUS
<1> HIDE DEF T
<1> QED
  BY <1>1, <1>2, <1>3 DEF SettleCheck

\* Cancels.
LEMMA CancelWorld ==
  ASSUME IInv, ParentsExist, NEW j \in Jobs, CancelBegins(j) \/ CancelCommits(j)
  PROVE  World
<1> USE DEF IInv
<1>1. CASE CancelBegins(j)
  BY <1>1 DEF CancelBegins, jobVars, runVars, World, RunsOnward, EventsOnward, Completes, Cancels
<1>2. CASE CancelCommits(j)
  <2> DEFINE st == [jobState EXCEPT ![j] = "cancelled"]
             busy == {x \in Jobs : HasExecutingRun(x)}
             settled == CancelCascade(j, st, busy)
  <2>1. /\ j \in cancelling
        /\ jobState' = [x \in Jobs |-> IF x \in settled THEN "completed" ELSE st[x]]
        /\ runs' = [runs EXCEPT ![j] = [k \in Ticks |-> IF k \in flips[j] THEN "CANCELLED" ELSE @[k]]]
        /\ pending' = pending \union {<<j, k, "CANCELLED">> : k \in flips[j]}
        /\ UNCHANGED <<dropped, txVars>>
    BY <1>2 DEF CancelCommits
  <2>2. \A x \in settled :
          /\ x \in Jobs /\ x \notin Recurring /\ st[x] = "active" /\ ~HasExecutingRun(x)
          /\ Trigger[x] = NoJob \/ Trigger[x] \in settled \/ st[Trigger[x]] # "active"
          /\ Trigger[x] = j \/ Trigger[x] \in settled
    <3> SUFFICES ASSUME NEW x \in SettleCheck(Downstream({j}), st, busy)
                 PROVE  /\ x \in Jobs /\ x \notin Recurring /\ st[x] = "active" /\ ~HasExecutingRun(x)
                        /\ \/ Trigger[x] = NoJob
                           \/ Trigger[x] \in SettleCheck(Downstream({j}), st, busy)
                           \/ st[Trigger[x]] # "active"
                        /\ \/ Trigger[x] = j
                           \/ Trigger[x] \in SettleCheck(Downstream({j}), st, busy)
      BY DEF CancelCascade
    <3> HIDE DEF st, busy
    <3>1. /\ x \in Jobs /\ x \notin Recurring /\ st[x] = "active" /\ x \notin busy
          /\ \/ Trigger[x] = NoJob
             \/ Trigger[x] \in SettleCheck(Downstream({j}), st, busy)
             \/ st[Trigger[x]] # "active"
          /\ x \in Downstream({j}) \/ Trigger[x] \in SettleCheck(Downstream({j}), st, busy)
      BY SettleCheckFacts
    <3>2. x \in Downstream({j}) => Trigger[x] = j
      BY DEF Downstream
    <3>3. ~HasExecutingRun(x)
      BY <3>1 DEF busy
    <3> QED
      BY <3>1, <3>2, <3>3
  <2>3. jobState[j] = "active" /\ j \notin settled /\ jobState'[j] = "cancelled" /\ st[j] = "cancelled"
    <3>1. jobState[j] = "active"
      BY <2>1 DEF RowsInv, CancelsHold
    <3>2. st[j] = "cancelled"
      BY DEF TypeOK
    <3>3. j \notin settled
      BY <3>2, <2>2
    <3> HIDE DEF st, settled
    <3> QED
      BY <3>1, <3>2, <3>3, <2>1
  <2>4. \A x \in settled : Stopped(x)'
    BY <2>3, CascadeStopped
  <2>5. ASSUME NEW x \in settled \union {j} PROVE UnderWay(x)
    <3> SUFFICES ASSUME NEW d \in Jobs, Trigger[d] = x, jobState'[d] = "active"
                 PROVE  \E y \in Ticks : runs'[d][y] \in Executing
      BY DEF UnderWay
    <3>1. d # j /\ d \notin settled /\ st[d] = "active"
      BY <2>1, <2>3
    <3>2. d \notin Recurring /\ (x = j => d \in Downstream({j}))
      BY <2>2, ContinuationAssumption DEF Downstream
    <3>3. x = j => st[Trigger[d]] # "active"
      BY <2>3
    <3>4. d \in busy
      BY <3>1, <3>2, <3>3, SettleCheckTakes DEF CancelCascade
    <3> QED
      BY <3>1, <3>4, <2>1 DEF HasExecutingRun, TypeOK
  <2> HIDE DEF settled
  <2>6. RunsOnward
    <3>1. \A x \in Jobs, y \in Ticks :
            \/ runs'[x][y] = runs[x][y]
            \/ x = j /\ runs'[x][y] = "CANCELLED" /\ runs[x][y] # "none"
      BY <2>1 DEF TypeOK, RowsInv, CancelsHold
    <3> QED
      BY <3>1, <2>3, Statuses DEF RunsOnward
  <2>7. EventsOnward
    <3>1. \A x, y, s : <<x, y, s>> \in pending' => <<x, y, s>> \in pending \/ x = j
      BY <2>1
    <3>2. pending \subseteq pending'
      BY <2>1
    <3> QED
      BY <3>1, <3>2, <2>3 DEF EventsOnward
  <2>8. Completes
    <3> SUFFICES ASSUME NEW x \in Jobs, jobState[x] = "active", jobState'[x] = "completed"
                 PROVE  /\ \A y \in Ticks : runs'[x][y] \notin Executing
                        /\ Stopped(x)' /\ Trigger[x] # NoJob /\ UnderWay(x)
                        /\ jobState'[Trigger[x]] \in {"completed", "cancelled"}
      BY DEF Completes
    <3>1. x \in settled /\ x # j
      BY <2>1, <2>3 DEF TypeOK
    <3>2. Trigger[x] \in Jobs /\ Trigger[x] # NoJob
      BY <3>1, <2>2, ContinuationAssumption
    <3>3. \A y \in Ticks : runs'[x][y] \notin Executing
      BY <3>1, <2>1, <2>2 DEF HasExecutingRun, TypeOK
    <3>4. jobState'[Trigger[x]] \in {"completed", "cancelled"}
      <4>1. jobState[Trigger[x]] # "absent"
        BY <3>2 DEF ParentsExist
      <4>2. CASE Trigger[x] \in settled
        BY <4>2, <3>2, <2>1
      <4>3. CASE Trigger[x] \notin settled
        <5>1. st[Trigger[x]] \in {"completed", "cancelled"}
          BY <4>1, <4>3, <3>1, <3>2, <2>2 DEF TypeOK, JobState
        <5> QED
          BY <5>1, <4>3, <3>2, <2>1
      <4> QED
        BY <4>2, <4>3
    <3> QED
      BY <3>1, <3>2, <3>3, <3>4, <2>4, <2>5
  <2>9. Cancels
    <3>1. \A x \in Jobs : jobState[x] = "active" /\ jobState'[x] = "cancelled" => x = j
      BY <2>1 DEF TypeOK
    <3> QED
      BY <3>1, <2>5 DEF Cancels
  <2> QED
    BY <2>1, <2>6, <2>7, <2>8, <2>9 DEF World
<1> QED
  BY <1>1, <1>2

\* A step is the consumer's or leaves it alone.
LEMMA StepKinds ==
  ASSUME IInv, ParentsExist, [Next]_vars
  PROVE  World \/ \E c \in Consumers : ConsumerStep(c) \/ ConsumerAborts(c)
<1>1. CASE UNCHANGED vars
  BY <1>1 DEF vars, World, RunsOnward, EventsOnward, Completes, Cancels, txVars
<1>2. CASE CreateStep
  BY <1>2, CreateWorld DEF CreateStep
<1>3. CASE RunStep
  BY <1>3, RunWorld DEF RunStep
<1>4. CASE CancelStep
  BY <1>4, CancelWorld DEF CancelStep
<1> QED
  BY <1>1, <1>2, <1>3, <1>4 DEF Next

----------------------------------------------------------------------------
(* The consumer's check *)

\* The runs it inserts, the jobs busy with one, and the jobs it settles.
Inserts(c) == cSpawn[c] \union Triggered(cDowns[c], cEvent[c][2], cEvent[c][3])
BusyJobs(c) == {x \in Jobs : HasExecutingRun(x)} \union {r[1] : r \in Inserts(c)}
SettledBy(c) == SettleCheck(cDowns[c] \union {cEvent[c][1]}, jobState, BusyJobs(c))

\* What the check of a consumer finds.
LEMMA CheckEffects ==
  ASSUME IInv, NEW c \in Consumers, ConsumerChecks(c)
  PROVE  /\ cpc[c] = "listed" /\ cpc'[c] = "checked"
         /\ cSpawn'[c] = Inserts(c) /\ cSettle'[c] = SettledBy(c)
         /\ cDrop'[c] = SlowConsumers(cDowns[c], cEvent[c][2], cEvent[c][3])
         /\ UNCHANGED <<jobState, creating, runs, pending, dropped, cEvent, cSeen, cDowns>>
  BY DEF ConsumerChecks, Inserts, BusyJobs, SettledBy, jobVars, runVars, IInv, TypeOK

\* The jobs it settles have no run under way, old or new, and the cascade reaches
\* them.
LEMMA SettledByFacts ==
  ASSUME IInv, NEW c \in Consumers, cpc[c] = "listed", NEW x \in SettledBy(c)
  PROVE  /\ x \in Jobs /\ x \notin Recurring /\ jobState[x] = "active" /\ ~HasExecutingRun(x)
         /\ \A y \in Ticks : <<x, y>> \notin Inserts(c)
         /\ Trigger[x] = NoJob \/ Trigger[x] \in SettledBy(c) \/ jobState[Trigger[x]] # "active"
         /\ x = cEvent[c][1] \/ x \in cDowns[c] \/ Trigger[x] \in SettledBy(c)
<1>1. /\ x \in Jobs /\ x \notin Recurring /\ jobState[x] = "active" /\ x \notin BusyJobs(c)
      /\ Trigger[x] = NoJob \/ Trigger[x] \in SettledBy(c) \/ jobState[Trigger[x]] # "active"
      /\ x \in cDowns[c] \union {cEvent[c][1]} \/ Trigger[x] \in SettledBy(c)
  <2>1. PICK roots, busy : roots = cDowns[c] \union {cEvent[c][1]} /\ busy = BusyJobs(c)
    OBVIOUS
  <2>2. SettledBy(c) = SettleCheck(roots, jobState, busy)
    BY <2>1 DEF SettledBy
  <2>3. /\ x \in Jobs /\ x \notin Recurring /\ jobState[x] = "active" /\ x \notin busy
        /\ Trigger[x] = NoJob \/ Trigger[x] \in SettledBy(c) \/ jobState[Trigger[x]] # "active"
        /\ x \in roots \/ Trigger[x] \in SettledBy(c)
    BY <2>2, SettleCheckFacts
  <2> QED
    BY <2>1, <2>3
<1>2. ~HasExecutingRun(x)
  BY <1>1 DEF BusyJobs
<1>3. ASSUME NEW y \in Ticks, <<x, y>> \in Inserts(c) PROVE FALSE
  <2>1. <<x, y>>[1] \in {r[1] : r \in Inserts(c)}
    BY <1>3
  <2> QED
    BY <1>1, <2>1 DEF BusyJobs
<1> QED
  BY <1>1, <1>2, <1>3

\* A run it inserts is one it had in hand, or is triggered by its event.
LEMMA InsertsFacts ==
  ASSUME IInv, NEW c \in Consumers, cpc[c] = "listed", NEW x \in Jobs, NEW y \in Ticks,
         <<x, y>> \in Inserts(c)
  PROVE  <<x, y>> \in cSpawn[c] \/ (x \in cDowns[c] /\ y = cEvent[c][2])
  BY DEF Inserts, Triggered

\* A consumer that is alone leaves nothing behind.
LEMMA Alone ==
  ASSUME IInv, SingleConsumer, NEW c \in Consumers, EndTransaction(c), NEW x \in Consumers
  PROVE  cpc'[x] = "idle" /\ cDowns'[x] = {} /\ cSpawn'[x] = {} /\ cSettle'[x] = {}
<1>1. x = c
  BY DEF SingleConsumer
<1> QED
  BY <1>1 DEF EndTransaction, IInv, TypeOK

\* What a consumer has at hand names jobs with a trigger, or recurring ones.
LEMMA HandsOn ==
  ASSUME IInv, NEW c \in Consumers
  PROVE  /\ cpc[c] # "idle" => cEvent[c] \in Events /\ cEvent[c][1] \in Jobs /\ cEvent[c][2] \in Ticks
         /\ \A d \in cDowns[c] : d \in Jobs /\ Trigger[d] = cEvent[c][1] /\ Trigger[d] # NoJob
         /\ \A j \in Jobs, k \in Ticks : <<j, k>> \in cSpawn[c] =>
              j \in Recurring \/ (Trigger[j] = cEvent[c][1] /\ Trigger[j] # NoJob)
<1> USE DEF IInv, TxInv
<1>1. cpc[c] # "idle" => cEvent[c] \in Events /\ cEvent[c][1] \in Jobs /\ cEvent[c][2] \in Ticks
  BY EventShape DEF EventLoaded
<1>2. cpc[c] = "idle" => cDowns[c] = {} /\ cSpawn[c] = {}
  BY DEF Listed
<1>3. cpc[c] # "idle" => cEvent[c][1] # NoJob
  BY <1>1, ContinuationAssumption
<1> QED
  BY <1>1, <1>2, <1>3 DEF Listed, SpawnsOne, TypeOK

----------------------------------------------------------------------------
(* When a job is completed: the invariant *)

\* Everyone but the consumer.
LEMMA SettleWorld ==
  ASSUME IInv, IInv', SettleInv, [Next]_vars, World
  PROVE  SettleInv'
<1> USE ContinuationAssumption DEF SettleInv
<1>1. Onward /\ Validated
  BY StepOnward
<1>2. RunsOnward /\ Completes
  BY DEF World
<1>3. UNCHANGED <<cpc, cEvent, cSeen, cDowns, cSpawn, cDrop, cSettle, cLocked>>
  BY DEF World, txVars
<1>4. jobState \in [Jobs -> JobState] /\ jobState' \in [Jobs -> JobState] /\ creating' \subseteq Jobs
  BY DEF IInv, TypeOK
<1>5. ParentsExist'
  BY <1>1, <1>4 DEF ParentsExist, Onward, Validated, JobState
<1>6. NeverCompleted'
  BY <1>1, <1>2, <1>4 DEF NeverCompleted, Onward, Completes, SettledByWorker, JobState
<1>7. SettledExhausted'
  <2> SUFFICES ASSUME NEW j \in Jobs, jobState'[j] = "completed", ~Stopped(j)'
               PROVE  /\ \A k \in Ticks : runs'[j][k] \notin Executing
                      /\ Trigger[j] # NoJob => jobState'[Trigger[j]] = "completed"
    BY DEF SettledExhausted, HasExecutingRun
  <2>1. ~Stopped(j)
    BY <1>1, StaysStopped
  <2>2. CASE jobState[j] = "completed"
    <3>1. /\ \A k \in Ticks : runs[j][k] \notin Executing
          /\ Trigger[j] # NoJob => jobState[Trigger[j]] = "completed"
      BY <2>1, <2>2 DEF SettledExhausted, HasExecutingRun
    <3>2. \A k \in Ticks : runs'[j][k] \notin Executing
      BY <3>1, <2>2, <1>2 DEF RunsOnward
    <3>3. Trigger[j] # NoJob => jobState'[Trigger[j]] = "completed"
      BY <3>1, <1>1 DEF Onward
    <3> QED
      BY <3>2, <3>3
  <2>3. CASE jobState[j] # "completed"
    <3>1. jobState[j] = "active"
      BY <2>3, <1>1, <1>4 DEF Onward, JobState
    <3> QED
      BY <3>1, <1>2 DEF Completes, SettledByWorker
  <2> QED
    BY <2>2, <2>3
<1>8. ASSUME NEW c \in Consumers, NEW j \in Jobs, jobState[j] = "active" \/ Stopped(j),
             j \in Recurring \/ Trigger[j] # NoJob
      PROVE  jobState'[j] = "active" \/ Stopped(j)'
  <2>1. CASE Stopped(j)
    BY <2>1, <1>1, StaysStopped
  <2>2. CASE jobState[j] = "active"
    <3>1. jobState'[j] = "cancelled" => Stopped(j)'
      BY DEF Stopped
    <3>2. jobState'[j] = "completed" => Stopped(j)'
      BY <1>2, <2>2, <1>8 DEF Completes, SettledByWorker
    <3> QED
      BY <3>1, <3>2, <2>2, <1>1, <1>4 DEF Onward, JobState
  <2> QED
    BY <1>8, <2>1, <2>2
<1>9. ASSUME NEW c \in Consumers PROVE StillOpen(c)'
  <2>1. StillOpen(c)
    OBVIOUS
  <2> QED
    BY <2>1, <1>3, <1>8, HandsOn DEF StillOpen
<1>10. ASSUME NEW c \in Consumers PROVE SettlesIdle(c)'
  <2> SUFFICES ASSUME NEW j \in cSettle[c]
               PROVE  /\ j \notin Recurring
                      /\ ~HasExecutingRun(j)' /\ \A k \in Ticks : <<j, k>> \notin cSpawn[c]
                      /\ \/ Trigger[j] = NoJob \/ Trigger[j] \in cSettle[c]
                         \/ jobState'[Trigger[j]] \in {"completed", "cancelled"}
    BY <1>3 DEF SettlesIdle
  <2>1. j \in Jobs /\ jobState[j] = "active"
    BY DEF IInv, TypeOK, TxInv, Settles
  <2>2. /\ j \notin Recurring
        /\ ~HasExecutingRun(j) /\ \A k \in Ticks : <<j, k>> \notin cSpawn[c]
        /\ \/ Trigger[j] = NoJob \/ Trigger[j] \in cSettle[c]
           \/ jobState[Trigger[j]] \in {"completed", "cancelled"}
    BY DEF SettlesIdle
  <2>3. ~HasExecutingRun(j)'
    BY <2>1, <2>2, <1>2 DEF HasExecutingRun, RunsOnward
  <2>4. Trigger[j] # NoJob /\ jobState[Trigger[j]] \in {"completed", "cancelled"} =>
          jobState'[Trigger[j]] \in {"completed", "cancelled"}
    BY <2>1, <1>1 DEF Onward
  <2> QED
    BY <2>2, <2>3, <2>4
<1> QED
  BY <1>5, <1>6, <1>7, <1>9, <1>10

\* The consumer loads its event, or aborts.
LEMMA SettleLoads ==
  ASSUME SettleInv, IInv, SingleConsumer, NEW c \in Consumers,
         (\E e \in pending : ConsumerLoads(c, e)) \/ ConsumerAborts(c)
  PROVE  SettleInv'
<1> USE DEF SettleInv
<1>1. UNCHANGED <<jobState, creating, runs>>
  BY DEF ConsumerLoads, ConsumerAborts, jobVars, runVars
<1>2. ParentsExist' /\ NeverCompleted' /\ SettledExhausted'
  BY <1>1 DEF ParentsExist, NeverCompleted, SettledExhausted, Stopped, HasExecutingRun
<1>3. ASSUME NEW x \in Consumers PROVE StillOpen(x)' /\ SettlesIdle(x)'
  <2>1. CASE UNCHANGED <<cDowns, cSpawn, cSettle>>
    BY <1>1, <2>1 DEF StillOpen, SettlesIdle, Stopped, HasExecutingRun
  <2>2. CASE EndTransaction(c)
    BY <2>2, Alone DEF StillOpen, SettlesIdle
  <2> QED
    BY <2>1, <2>2 DEF ConsumerLoads, ConsumerAborts
<1> QED
  BY <1>2, <1>3

\* It inserts the next tick and lists the jobs downstream.
LEMMA SettleLists ==
  ASSUME SettleInv, IInv, SingleConsumer, NEW c \in Consumers, ConsumerLists(c)
  PROVE  SettleInv'
<1> USE DEF SettleInv
<1>1. UNCHANGED <<jobState, creating, runs, cSettle>> /\ cpc[c] = "loaded"
  BY DEF ConsumerLists, jobVars, runVars
<1>2. ParentsExist' /\ NeverCompleted' /\ SettledExhausted'
  BY <1>1 DEF ParentsExist, NeverCompleted, SettledExhausted, Stopped, HasExecutingRun
<1>3. ASSUME NEW x \in Consumers PROVE StillOpen(x)' /\ SettlesIdle(x)'
  <2>1. x = c
    BY DEF SingleConsumer
  <2>2. cSettle'[c] = {}
    BY <1>1 DEF IInv, TxInv, Listed
  <2>3. \A d \in cDowns'[c] : jobState[d] = "active"
    BY DEF ConsumerLists, IInv, TypeOK
  <2>4. ASSUME NEW j \in Jobs, NEW k \in Ticks, <<j, k>> \in cSpawn'[c]
        PROVE  jobState[j] = "active" \/ Stopped(j)
    <3>1. j = cEvent[c][1] /\ j \in Recurring
      BY <2>4 DEF ConsumerLists, Successor, IInv, TypeOK
    <3>2. jobState[j] # "absent"
      BY <3>1, <1>1 DEF IInv, TxInv, EventLoaded
    <3>3. jobState[j] \in {"active", "cancelled"}
      BY <3>1, <3>2 DEF NeverCompleted, IInv, TypeOK, JobState
    <3> QED
      BY <3>3, CancelledIsStopped
  <2>5. StillOpen(c)'
    BY <2>3, <2>4, <1>1 DEF StillOpen, Stopped
  <2>6. SettlesIdle(c)'
    BY <2>2 DEF SettlesIdle
  <2> QED
    BY <2>1, <2>5, <2>6
<1> QED
  BY <1>2, <1>3

\* It triggers runs and finds the jobs to settle.
LEMMA SettleChecks ==
  ASSUME SettleInv, IInv, SingleConsumer, NEW c \in Consumers, ConsumerChecks(c)
  PROVE  SettleInv'
<1> USE ContinuationAssumption DEF SettleInv
<1>1. /\ cpc[c] = "listed" /\ cSpawn'[c] = Inserts(c) /\ cSettle'[c] = SettledBy(c)
      /\ UNCHANGED <<jobState, creating, runs, cDowns>>
  BY CheckEffects
<1>2. ParentsExist' /\ NeverCompleted' /\ SettledExhausted'
  BY <1>1 DEF ParentsExist, NeverCompleted, SettledExhausted, Stopped, HasExecutingRun
<1>3. StillOpen(c)'
  <2>1. ASSUME NEW j \in Jobs, NEW k \in Ticks, <<j, k>> \in Inserts(c)
        PROVE  jobState[j] = "active" \/ Stopped(j)
    BY <2>1, <1>1, InsertsFacts DEF StillOpen
  <2> QED
    BY <2>1, <1>1 DEF StillOpen, Stopped
<1>4. ASSUME NEW j \in SettledBy(c)
      PROVE  /\ j \notin Recurring
             /\ ~HasExecutingRun(j) /\ \A k \in Ticks : <<j, k>> \notin Inserts(c)
             /\ \/ Trigger[j] = NoJob \/ Trigger[j] \in SettledBy(c)
                \/ jobState[Trigger[j]] \in {"completed", "cancelled"}
  <2>1. /\ j \in Jobs /\ j \notin Recurring /\ jobState[j] = "active" /\ ~HasExecutingRun(j)
        /\ \A k \in Ticks : <<j, k>> \notin Inserts(c)
        /\ Trigger[j] = NoJob \/ Trigger[j] \in SettledBy(c) \/ jobState[Trigger[j]] # "active"
    BY <1>1, SettledByFacts
  <2>2. Trigger[j] # NoJob => Trigger[j] \in Jobs /\ jobState[Trigger[j]] \in JobState \ {"absent"}
    BY <2>1 DEF ParentsExist, IInv, TypeOK
  <2> QED
    BY <2>1, <2>2 DEF JobState
<1>5. SettlesIdle(c)'
  <2> SUFFICES ASSUME NEW j \in cSettle'[c]
               PROVE  /\ j \notin Recurring
                      /\ ~HasExecutingRun(j)' /\ \A k \in Ticks : <<j, k>> \notin cSpawn'[c]
                      /\ \/ Trigger[j] = NoJob \/ Trigger[j] \in cSettle'[c]
                         \/ jobState'[Trigger[j]] \in {"completed", "cancelled"}
    BY DEF SettlesIdle
  <2>1. HasExecutingRun(j)' <=> HasExecutingRun(j)
    BY <1>1 DEF HasExecutingRun
  <2> QED
    BY <2>1, <1>1, <1>4
<1> QED
  BY <1>2, <1>3, <1>5 DEF SingleConsumer

\* It commits.
LEMMA SettleCommits ==
  ASSUME SettleInv, IInv, SingleConsumer, [Next]_vars, NEW c \in Consumers, ConsumerCommits(c)
  PROVE  SettleInv'
<1> USE ContinuationAssumption DEF SettleInv
<1>1. Onward /\ Validated
  BY StepOnward
<1>2. SettledAfter(c) /\ InsertedAfter(c)
  BY CommitEffects
<1>3. /\ jobState' = [j \in Jobs |-> IF j \in cSettle[c] THEN "completed" ELSE jobState[j]]
      /\ EndTransaction(c) /\ UNCHANGED creating
  BY DEF ConsumerCommits
<1>4. jobState \in [Jobs -> JobState] /\ creating \subseteq Jobs /\ cSettle[c] \subseteq Jobs
  BY DEF IInv, TypeOK
<1>5. ParentsExist'
  BY <1>1, <1>3, <1>4 DEF ParentsExist, Onward, Validated, JobState
<1>6. NeverCompleted'
  <2>1. \A j \in Recurring : jobState[j] = "active" => j \in Jobs /\ j \notin cSettle[c]
    BY DEF SettlesIdle
  <2> QED
    BY <2>1, <1>2 DEF NeverCompleted, SettledAfter
<1>7. SettledExhausted'
  <2> SUFFICES ASSUME NEW j \in Jobs, jobState'[j] = "completed", ~Stopped(j)'
               PROVE  /\ \A k \in Ticks : runs'[j][k] \notin Executing
                      /\ Trigger[j] # NoJob => jobState'[Trigger[j]] = "completed"
    BY DEF SettledExhausted, HasExecutingRun
  <2>1. ~Stopped(j)
    BY <1>1, StaysStopped
  <2>2. Trigger[j] # NoJob => Trigger[j] \in Jobs /\ jobState[Trigger[j]] # "cancelled"
    <3>1. Trigger[j] # NoJob /\ jobState[Trigger[j]] = "cancelled" => Stopped(j)
      BY CancelledIsStopped, StoppedWithTrigger
    <3> QED
      BY <3>1, <2>1
  <2>3. CASE j \in cSettle[c]
    <3>1. /\ \A k \in Ticks : runs[j][k] \notin Executing /\ <<j, k>> \notin cSpawn[c]
          /\ \/ Trigger[j] = NoJob \/ Trigger[j] \in cSettle[c]
             \/ jobState[Trigger[j]] \in {"completed", "cancelled"}
      BY <2>3 DEF SettlesIdle, HasExecutingRun
    <3>2. Trigger[j] # NoJob => jobState'[Trigger[j]] = "completed"
      BY <3>1, <2>2, <1>3
    <3> QED
      BY <3>1, <3>2, <1>2 DEF InsertedAfter
  <2>4. CASE j \notin cSettle[c]
    <3>1. jobState[j] = "completed"
      BY <2>4, <1>3
    <3>2. /\ \A k \in Ticks : runs[j][k] \notin Executing
          /\ Trigger[j] # NoJob => jobState[Trigger[j]] = "completed"
      BY <3>1, <2>1 DEF SettledExhausted, HasExecutingRun
    <3>3. \A k \in Ticks : <<j, k>> \notin cSpawn[c]
      BY <3>1, <2>1 DEF StillOpen
    <3>4. Trigger[j] # NoJob => jobState'[Trigger[j]] = "completed"
      BY <3>2, <2>2, <1>3
    <3> QED
      BY <3>2, <3>3, <3>4, <1>2 DEF InsertedAfter
  <2> QED
    BY <2>3, <2>4
<1>8. ASSUME NEW x \in Consumers PROVE StillOpen(x)' /\ SettlesIdle(x)'
  BY <1>3, Alone DEF StillOpen, SettlesIdle
<1> QED
  BY <1>5, <1>6, <1>7, <1>8

\* At the start.
LEMMA SettleInit == Init => SettleInv
  BY ContinuationAssumption
     DEF Init, SettleInv, ParentsExist, NeverCompleted, SettledExhausted, StillOpen, SettlesIdle

\* Every step.
LEMMA SettleNext ==
  ASSUME SingleConsumer, IInv, SettleInv, [Next]_vars
  PROVE  SettleInv'
<1>1. IInv'
  BY NextInv
<1>2. World \/ \E c \in Consumers : ConsumerStep(c) \/ ConsumerAborts(c)
  BY StepKinds DEF SettleInv
<1>3. CASE World
  BY <1>1, <1>3, SettleWorld
<1>4. ASSUME NEW c \in Consumers, ConsumerStep(c) \/ ConsumerAborts(c) PROVE SettleInv'
  BY <1>4, SettleLoads, SettleLists, SettleChecks, SettleCommits DEF ConsumerStep
<1> QED
  BY <1>2, <1>3, <1>4

\* With one consumer, what is settled and what may still be inserted are told
\* apart in every reachable state.
THEOREM SettleInvariance == SingleConsumer => (Spec => []SettleInv)
<1> SUFFICES ASSUME SingleConsumer PROVE Spec => []SettleInv
  OBVIOUS
<1>1. IInv /\ SettleInv /\ [Next]_vars => SettleInv'
  BY SettleNext
<1> QED
  BY <1>1, SettleInit, ContinuationInvariance, PTL DEF Spec

\* With one consumer, a job of a pipeline without a cancelled job is completed
\* only when it has no executing run and its trigger can fire no more.  (With two,
\* the second handling of an event may settle a job the first has listed.)
THEOREM CompletedIsExhausted == SingleConsumer => (Spec => []SettledExhausted)
<1> SUFFICES ASSUME SingleConsumer PROVE Spec => []SettledExhausted
  OBVIOUS
<1>1. SettleInv => SettledExhausted
  BY DEF SettleInv
<1> QED
  BY <1>1, SettleInvariance, PTL

----------------------------------------------------------------------------
(* What follows an event: the invariant *)

\* The trigger of a job that is not stopped has not been cancelled.
LEMMA TriggerGoesOn ==
  ASSUME NEW d \in Jobs, Trigger[d] # NoJob, ~Stopped(d)
  PROVE  Trigger[d] \in Jobs /\ jobState[Trigger[d]] # "cancelled" /\ ~Stopped(Trigger[d])
  BY CancelledIsStopped, StoppedWithTrigger, ContinuationAssumption

\* An event is about a run with that status, unless its job was cancelled.
LEMMA EventOfRun ==
  ASSUME IInv, NEW e \in pending
  PROVE  /\ e[1] \in Jobs /\ e[2] \in Ticks /\ e[3] \in Terminal /\ e = <<e[1], e[2], e[3]>>
         /\ jobState[e[1]] # "cancelled" => runs[e[1]][e[2]] = e[3] /\ runs[e[1]][e[2]] # "none"
<1>1. e \in Events
  BY DEF IInv, TypeOK
<1>2. /\ e[1] \in Jobs /\ e[2] \in Ticks /\ e[3] \in Terminal /\ e = <<e[1], e[2], e[3]>>
  BY <1>1, EventShape
<1>3. jobState[e[1]] # "cancelled" => runs[e[1]][e[2]] = e[3]
  BY <1>2 DEF IInv, RowsInv, EventsTell
<1> QED
  BY <1>2, <1>3, Statuses

\* The jobs a check settles have no event of their trigger to come but the one it
\* handles: such a pipeline starts with a one-shot job, so all its runs are of one
\* tick, and those below the event's job have not begun.
LEMMA CheckedLast ==
  ASSUME IInv, SettleInv, AccountInv, NEW c \in Consumers, cpc[c] = "listed",
         NEW d \in SettledBy(c), d \in Existing, Trigger[d] # NoJob, ~Stopped(d),
         NEW e \in pending, e[1] = Trigger[d]
  PROVE  e = cEvent[c]
<1> DEFINE j == cEvent[c][1]
           S == {x \in Jobs : (x \in SettledBy(c) \/ jobState[x] = "completed") /\ ~Stopped(x)}
<1>1. \A x \in SettledBy(c) :
        /\ x \in Jobs /\ x \notin Recurring /\ jobState[x] = "active"
        /\ Trigger[x] = NoJob \/ Trigger[x] \in SettledBy(c) \/ jobState[Trigger[x]] # "active"
        /\ x = j \/ x \in cDowns[c] \/ Trigger[x] \in SettledBy(c)
  BY SettledByFacts
<1>2. ASSUME NEW x \in S, Trigger[x] # NoJob PROVE Trigger[x] \in S
  <2>1. Trigger[x] \in Jobs /\ jobState[Trigger[x]] # "cancelled" /\ ~Stopped(Trigger[x])
    BY <1>2, TriggerGoesOn
  <2>2. CASE x \in SettledBy(c)
    <3>1. jobState[x] # "absent"
      BY <1>1, <2>2
    <3>2. jobState[Trigger[x]] \in {"active", "completed"}
      BY <3>1, <2>1, <1>2 DEF SettleInv, ParentsExist, IInv, TypeOK, JobState
    <3> QED
      BY <3>2, <2>1, <2>2, <1>1, <1>2
  <2>3. CASE jobState[x] = "completed"
    BY <2>1, <2>3, <1>2 DEF SettleInv, SettledExhausted
  <2> QED
    BY <2>2, <2>3
<1>3. ASSUME NEW x \in S PROVE \A z \in {x} \union Upstream(x) : z \notin Recurring
  <2>1. \A y \in S \union {x} : Trigger[y] \in S \union {NoJob}
    BY <1>2
  <2>2. S \in SUBSET Jobs
    OBVIOUS
  <2>3. Upstream(x) \subseteq S
    BY <2>1, <2>2 DEF Upstream
  <2>4. \A z \in S : z \notin Recurring
    BY <1>1 DEF SettleInv, NeverCompleted
  <2> QED
    BY <2>3, <2>4
<1>4. \A x \in S, y \in Ticks : runs[x][y] # "none" => y = 1
  BY <1>3 DEF AccountInv, OneTick
<1>5. d \in S
  BY <1>1
<1>6. Trigger[d] \in S
  BY <1>2, <1>5
<1> HIDE DEF S
<1>7. /\ e[2] \in Ticks /\ e[3] \in Terminal /\ e = <<Trigger[d], e[2], e[3]>>
      /\ runs[Trigger[d]][e[2]] = e[3] /\ runs[Trigger[d]][e[2]] # "none"
  <2>1. jobState[Trigger[d]] # "cancelled"
    BY <1>1, TriggerGoesOn
  <2> QED
    BY <2>1, EventOfRun
<1>8. e[2] = 1
  BY <1>4, <1>6, <1>7
<1>9. cEvent[c] \in pending
  BY DEF AccountInv, EventHeld
<1>10. /\ j \in Jobs /\ cEvent[c][2] \in Ticks /\ cEvent[c][3] \in Terminal
       /\ cEvent[c] = <<j, cEvent[c][2], cEvent[c][3]>>
       /\ jobState[j] # "cancelled" =>
            runs[j][cEvent[c][2]] = cEvent[c][3] /\ runs[j][cEvent[c][2]] # "none"
  BY <1>9, EventOfRun
<1>11. j \in S => cEvent[c][2] = 1 /\ runs[j][1] = cEvent[c][3] /\ runs[j][1] # "none"
  <2>1. j \in S => ~Stopped(j)
    BY DEF S
  <2>2. j \in S => jobState[j] # "cancelled"
    BY <2>1, CancelledIsStopped
  <2>3. j \in S => cEvent[c][2] = 1
    BY <2>2, <1>4, <1>10
  <2> QED
    BY <2>2, <2>3, <1>10
<1>12. CASE Trigger[d] = j
  <2>1. cEvent[c][2] = 1 /\ runs[j][1] = cEvent[c][3]
    BY <1>6, <1>11, <1>12
  <2>2. e[3] = cEvent[c][3]
    BY <2>1, <1>7, <1>8, <1>12
  <2> QED
    BY <2>1, <2>2, <1>7, <1>8, <1>10, <1>12
<1>13. ASSUME d = j, Trigger[d] # j PROVE FALSE
  <2>1. runs[d][1] # "none"
    BY <1>5, <1>11, <1>13
  <2>2. \A s \in Terminal : <<Trigger[d], 1, s>> \notin pending
    BY <2>1, <1>1, <1>7, <1>8 DEF AccountInv, Caused
  <2> QED
    BY <2>2, <1>7, <1>8
<1>14. ASSUME d # j, Trigger[d] # j PROVE FALSE
  <2> DEFINE W == {x \in SettledBy(c) : x # j /\ x \in Existing /\ ~Stopped(x) /\ runs[x][1] # "none"}
  <2>1. Trigger[d] \in SettledBy(c)
    BY <1>1, <1>14, HandsOn
  <2>2. Trigger[d] \in W
    <3>1. Trigger[d] \in Existing
      BY ContinuationAssumption
    <3>2. ~Stopped(Trigger[d])
      BY <1>1, TriggerGoesOn
    <3> QED
      BY <2>1, <3>1, <3>2, <1>7, <1>8, <1>14
  <2>3. W \in SUBSET Jobs
    BY <1>1
  <2>4. PICK x \in W : Trigger[x] \notin W
    BY <2>2, <2>3, ChainAssumption
  <2>5. /\ x \in Jobs /\ x \in SettledBy(c) /\ x # j /\ x \in Existing /\ ~Stopped(x)
        /\ runs[x][1] # "none" /\ x \in S /\ 1 \in Ticks
    BY <2>3, <1>7, <1>8 DEF S
  <2>6. Trigger[x] = j \/ Trigger[x] \in SettledBy(c)
    BY <2>5, <1>1, HandsOn
  <2>7. Trigger[x] # NoJob
    BY <2>6, <1>1, <1>10, ContinuationAssumption
  <2>8. /\ runs[Trigger[x]][1] \in Terminal
        /\ \A s \in Terminal : <<Trigger[x], 1, s>> \notin pending
    BY <2>5, <2>7 DEF AccountInv, Caused
  <2>9. CASE Trigger[x] = j
    <3>1. cEvent[c][2] = 1
      BY <2>5, <2>7, <2>9, <1>2, <1>11
    <3>2. cEvent[c] = <<j, 1, cEvent[c][3]>> /\ cEvent[c][3] \in Terminal
      BY <3>1, <1>10
    <3> QED
      BY <3>2, <2>8, <2>9, <1>9
  <2>10. CASE Trigger[x] # j
    <3>1. Trigger[x] \in SettledBy(c) /\ Trigger[x] \in Existing /\ ~Stopped(Trigger[x])
      BY <2>5, <2>6, <2>7, <2>10, TriggerGoesOn, ContinuationAssumption
    <3>2. runs[Trigger[x]][1] = "none"
      BY <3>1, <2>4, <2>10
    <3> QED
      BY <3>2, <2>8, Statuses
  <2> QED
    BY <2>9, <2>10
<1> QED
  BY <1>12, <1>13, <1>14

\* Everyone but the consumer.
LEMMA AccountWorld ==
  ASSUME IInv, IInv', SettleInv, AccountInv, [Next]_vars, World
  PROVE  AccountInv'
<1> USE ContinuationAssumption DEF AccountInv
<1>1. Onward /\ \A j \in Jobs : ~Stopped(j)' => ~Stopped(j)
  BY StepOnward, StaysStopped
<1>2. RunsOnward /\ EventsOnward /\ Completes
  BY DEF World
<1>3. UNCHANGED <<dropped, cpc, cEvent, cSeen, cDowns, cSpawn, cDrop, cSettle, cLocked>>
  BY DEF World, txVars
<1>4. jobState \in [Jobs -> JobState] /\ jobState' \in [Jobs -> JobState]
  BY DEF IInv, TypeOK
<1>5. \A d \in Jobs : Trigger[d] # NoJob /\ ~Stopped(d)' =>
        Trigger[d] \in Jobs /\ jobState'[Trigger[d]] # "cancelled"
  BY CancelledIsStopped, StoppedWithTriggerNext DEF Stopped
<1>6. ASSUME NEW e \in pending', e \notin pending, jobState'[e[1]] # "cancelled"
      PROVE  HasExecutingRun(e[1])
  <2>1. e[1] \in Jobs /\ e[2] \in Ticks /\ e[3] \in Terminal /\ e = <<e[1], e[2], e[3]>>
    BY EventShape DEF IInv, TypeOK
  <2> QED
    BY <2>1, <1>2, <1>6 DEF EventsOnward, HasExecutingRun
<1>7. Present'
  BY <1>1, <1>4 DEF Present, Onward, JobState
<1>8. OneTick'
  BY <1>1, <1>2 DEF OneTick, RunsOnward
<1>9. Caused'
  <2> SUFFICES ASSUME NEW d \in Jobs, NEW k \in Ticks, Trigger[d] # NoJob, runs'[d][k] # "none",
                      ~Stopped(d)'
               PROVE  /\ runs'[Trigger[d]][k] \in Terminal
                      /\ \A s \in Terminal : <<Trigger[d], k, s>> \notin pending'
    BY DEF Caused
  <2>1. /\ runs[Trigger[d]][k] \in Terminal
        /\ \A s \in Terminal : <<Trigger[d], k, s>> \notin pending
    <3>1. runs[d][k] # "none" /\ ~Stopped(d)
      BY <1>1, <1>2 DEF RunsOnward
    <3> QED
      BY <3>1 DEF Caused
  <2>2. runs[Trigger[d]][k] \notin Executing
    BY <2>1, Statuses
  <2>3. runs'[Trigger[d]][k] = runs[Trigger[d]][k]
    BY <2>1, <1>2, <1>5 DEF RunsOnward
  <2> QED
    BY <2>1, <2>2, <2>3, <1>2, <1>5 DEF EventsOnward
<1>10. ASSUME NEW u \in Jobs, ~Stopped(u), jobState[u] = "completed"
       PROVE  ~HasExecutingRun(u)
  BY <1>10 DEF SettleInv, SettledExhausted
<1>11. SettledLast'
  <2> SUFFICES ASSUME NEW d \in Existing, Trigger[d] # NoJob, jobState'[d] = "completed", ~Stopped(d)',
                      NEW e \in pending', e[1] = Trigger[d]
               PROVE  FALSE
    BY DEF SettledLast
  <2>1. d \in Jobs /\ ~Stopped(d) /\ Trigger[d] \in Jobs /\ ~Stopped(Trigger[d])
        /\ jobState'[Trigger[d]] # "cancelled"
    BY <1>1, <1>5, TriggerGoesOn
  <2>2. jobState[d] = "completed"
    BY <2>1, <1>1, <1>2, <1>4 DEF Onward, Completes, SettledByWorker, JobState
  <2>3. e \notin pending
    BY <2>1, <2>2 DEF SettledLast
  <2>4. jobState[Trigger[d]] = "completed"
    BY <2>1, <2>2 DEF SettleInv, SettledExhausted
  <2> QED
    BY <2>1, <2>3, <2>4, <1>6, <1>10
<1>12. \A x \in Jobs, y \in Ticks : runs[x][y] # "none" => runs'[x][y] # "none"
  BY <1>2 DEF RunsOnward
<1>13. TriggerAccounted'
  <2> SUFFICES ASSUME NEW d \in Existing, NEW k \in Ticks, NEW s \in {"SUCCEEDED", "FAILED"},
                      Trigger[d] # NoJob, ~Stopped(d)', TriggersOn(d, s),
                      runs'[Trigger[d]][k] = s, <<Trigger[d], k, s>> \notin pending'
               PROVE  runs'[d][k] # "none" \/ <<d, k>> \in dropped'
    BY DEF TriggerAccounted, TriggersOn
  <2>1. d \in Jobs /\ ~Stopped(d) /\ Trigger[d] \in Jobs /\ jobState'[Trigger[d]] # "cancelled"
    BY <1>1, <1>5
  <2>2. s \in Terminal /\ <<Trigger[d], k, s>> \notin pending
    BY <1>2 DEF EventsOnward, Terminal
  <2>3. runs[Trigger[d]][k] = s
    BY <2>1, <2>2, <1>2 DEF RunsOnward
  <2>4. runs[d][k] # "none" \/ <<d, k>> \in dropped
    BY <2>1, <2>2, <2>3 DEF TriggerAccounted
  <2> QED
    BY <2>1, <2>4, <1>3, <1>12
<1>14. ASSUME NEW c \in Consumers PROVE EventHeld(c)' /\ ListsAll(c)' /\ Accounts(c)'
  <2>1. EventHeld(c) /\ ListsAll(c) /\ Accounts(c)
    OBVIOUS
  <2>2. EventHeld(c)'
    BY <2>1, <1>2, <1>3 DEF EventHeld, EventsOnward
  <2>3. ListsAll(c)'
    BY <2>1, <1>1, <1>3 DEF ListsAll
  <2>4. Accounts(c)'
    <3> SUFFICES ASSUME cpc[c] = "checked", NEW d \in Existing, Trigger[d] = cEvent[c][1],
                        TriggersOn(d, cEvent[c][3]), ~Stopped(d)'
                 PROVE  \/ <<d, cEvent[c][2]>> \in cSpawn[c] \union cDrop[c]
                        \/ runs'[d][cEvent[c][2]] # "none"
      BY <1>3 DEF Accounts, TriggersOn
    <3>1. \/ <<d, cEvent[c][2]>> \in cSpawn[c] \union cDrop[c]
          \/ runs[d][cEvent[c][2]] # "none"
      BY <2>1, <1>1 DEF Accounts
    <3>2. d \in Jobs /\ cEvent[c][2] \in Ticks
      BY HandsOn
    <3> QED
      BY <3>1, <3>2, <1>12
  <2> QED
    BY <2>2, <2>3, <2>4
<1>15. ASSUME NEW c \in Consumers PROVE SettlesLast(c)'
  <2> SUFFICES ASSUME NEW d \in cSettle[c] \intersect Existing, Trigger[d] # NoJob, ~Stopped(d)',
                      NEW e \in pending', e[1] = Trigger[d]
               PROVE  e = cEvent[c]
    BY <1>3 DEF SettlesLast
  <2>1. d \in Jobs /\ ~Stopped(d) /\ Trigger[d] \in Jobs /\ ~Stopped(Trigger[d])
        /\ jobState'[Trigger[d]] # "cancelled" /\ jobState[Trigger[d]] # "cancelled"
    BY <1>1, <1>5, TriggerGoesOn
  <2>2. ~HasExecutingRun(Trigger[d])
    <3>1. Trigger[d] \in cSettle[c] \/ jobState[Trigger[d]] = "completed"
      BY <2>1 DEF SettleInv, SettlesIdle
    <3> QED
      BY <3>1, <2>1, <1>10 DEF SettleInv, SettlesIdle
  <2>3. e \in pending
    BY <2>1, <2>2, <1>6
  <2> QED
    BY <2>1, <2>3 DEF SettlesLast
<1> QED
  BY <1>7, <1>8, <1>9, <1>11, <1>13, <1>14, <1>15

\* What the rows say is kept by a step that leaves the rows alone.
LEMMA AccountRows ==
  ASSUME AccountInv, UNCHANGED <<jobState, runs, pending, dropped>>
  PROVE  Present' /\ OneTick' /\ Caused' /\ SettledLast' /\ TriggerAccounted'
<1> USE DEF AccountInv
<1>1. Present' /\ OneTick' /\ Caused'
  BY DEF Present, OneTick, Caused, Stopped
<1>2. SettledLast' /\ TriggerAccounted'
  BY DEF SettledLast, TriggerAccounted, Stopped, TriggersOn
<1> QED
  BY <1>1, <1>2

\* The consumer loads its event, or aborts.
LEMMA AccountLoads ==
  ASSUME AccountInv, IInv, SingleConsumer, NEW c \in Consumers,
         (\E e \in pending : ConsumerLoads(c, e)) \/ ConsumerAborts(c)
  PROVE  AccountInv'
<1>1. UNCHANGED <<jobState, runs, pending, dropped>>
  BY DEF ConsumerLoads, ConsumerAborts, jobVars, runVars
<1>2. Present' /\ OneTick' /\ Caused' /\ SettledLast' /\ TriggerAccounted'
  BY <1>1, AccountRows
<1>3. ASSUME NEW x \in Consumers PROVE EventHeld(x)' /\ ListsAll(x)' /\ Accounts(x)' /\ SettlesLast(x)'
  <2>1. x = c
    BY DEF SingleConsumer
  <2>2. CASE \E e \in pending : ConsumerLoads(c, e)
    <3>1. PICK e \in pending : ConsumerLoads(c, e)
      BY <2>2
    <3>2. cpc'[c] = "loaded" /\ cEvent'[c] = e /\ cSettle' = cSettle /\ cpc[c] = "idle"
      BY <3>1 DEF ConsumerLoads, IInv, TypeOK
    <3>3. cSettle'[c] = {}
      BY <3>2 DEF IInv, TxInv, Listed
    <3> QED
      BY <2>1, <3>2, <3>3, <1>1 DEF EventHeld, ListsAll, Accounts, SettlesLast
  <2>3. CASE ConsumerAborts(c)
    BY <2>1, <2>3, Alone DEF ConsumerAborts, EventHeld, ListsAll, Accounts, SettlesLast
  <2> QED
    BY <2>2, <2>3
<1> QED
  BY <1>2, <1>3 DEF AccountInv

\* It lists the jobs downstream: none that the event may trigger has been settled.
LEMMA AccountLists ==
  ASSUME AccountInv, IInv, SingleConsumer, NEW c \in Consumers, ConsumerLists(c)
  PROVE  AccountInv'
<1> USE ContinuationAssumption DEF AccountInv
<1>1. UNCHANGED <<jobState, runs, pending, dropped, cEvent, cSettle>> /\ cpc[c] = "loaded"
  BY DEF ConsumerLists, jobVars, runVars
<1>2. Present' /\ OneTick' /\ Caused' /\ SettledLast' /\ TriggerAccounted'
  BY <1>1, AccountRows
<1>3. /\ cpc'[c] = "listed"
      /\ cDowns'[c] = IF cSeen[c] = "cancelled" THEN {}
                      ELSE {d \in Downstream({cEvent[c][1]}) : jobState[d] = "active"}
  BY DEF ConsumerLists, IInv, TypeOK
<1>4. cSettle'[c] = {}
  BY <1>1 DEF IInv, TxInv, Listed
<1>5. cEvent[c] \in pending
  BY <1>1 DEF EventHeld
<1>6. EventHeld(c)'
  BY <1>1, <1>5 DEF EventHeld
<1>7. ASSUME NEW d \in Existing, Trigger[d] = cEvent[c][1], ~Stopped(d) PROVE d \in cDowns'[c]
  <2>1. d \in Jobs /\ Trigger[d] # NoJob
    BY <1>1, <1>7, HandsOn
  <2>2. jobState[Trigger[d]] # "cancelled"
    BY <2>1, <1>7, TriggerGoesOn
  <2>3. cSeen[c] # "cancelled"
    BY <2>2, <1>1, <1>7 DEF IInv, TxInv, EventLoaded
  <2>4. jobState[d] # "cancelled"
    BY <1>7, CancelledIsStopped
  <2>5. jobState[d] # "completed"
    BY <2>1, <1>5, <1>7 DEF SettledLast
  <2>6. jobState[d] = "active"
    BY <2>1, <2>4, <2>5 DEF Present, IInv, TypeOK, JobState
  <2> QED
    BY <2>1, <2>3, <2>6, <1>3, <1>7 DEF Downstream
<1>8. ListsAll(c)'
  BY <1>1, <1>7 DEF ListsAll, Stopped
<1>9. Accounts(c)' /\ SettlesLast(c)'
  BY <1>3, <1>4 DEF Accounts, SettlesLast
<1> QED
  BY <1>2, <1>6, <1>8, <1>9 DEF SingleConsumer

\* It triggers a run of each, or records a drop.
LEMMA AccountChecks ==
  ASSUME AccountInv, SettleInv, IInv, SingleConsumer, NEW c \in Consumers, ConsumerChecks(c)
  PROVE  AccountInv'
<1> USE ContinuationAssumption DEF AccountInv
<1>1. /\ cpc[c] = "listed" /\ cpc'[c] = "checked"
      /\ cSpawn'[c] = Inserts(c) /\ cSettle'[c] = SettledBy(c)
      /\ cDrop'[c] = SlowConsumers(cDowns[c], cEvent[c][2], cEvent[c][3])
      /\ UNCHANGED <<jobState, runs, pending, dropped, cEvent, cDowns>>
  BY CheckEffects
<1>2. Present' /\ OneTick' /\ Caused' /\ SettledLast' /\ TriggerAccounted'
  BY <1>1, AccountRows
<1>3. EventHeld(c)' /\ ListsAll(c)'
  BY <1>1 DEF EventHeld, ListsAll
<1>4. Accounts(c)'
  <2> SUFFICES ASSUME NEW d \in Existing, Trigger[d] = cEvent[c][1], TriggersOn(d, cEvent[c][3]), ~Stopped(d)
               PROVE  \/ <<d, cEvent[c][2]>> \in cSpawn'[c] \union cDrop'[c]
                      \/ runs[d][cEvent[c][2]] # "none"
    BY <1>1 DEF Accounts, Stopped, TriggersOn
  <2>1. d \in cDowns[c]
    BY <1>1 DEF ListsAll
  <2>2. CASE HasExecutingRun(d)
    <3>1. <<d, cEvent[c][2]>> \in SlowConsumers(cDowns[c], cEvent[c][2], cEvent[c][3])
      BY <2>1, <2>2 DEF SlowConsumers
    <3> QED
      BY <3>1, <1>1
  <2>3. CASE ~HasExecutingRun(d) /\ runs[d][cEvent[c][2]] = "none"
    <3>1. <<d, cEvent[c][2]>> \in Inserts(c)
      BY <2>1, <2>3 DEF Inserts, Triggered
    <3> QED
      BY <3>1, <1>1
  <2> QED
    BY <2>2, <2>3
<1>5. SettlesLast(c)'
  <2> SUFFICES ASSUME NEW d \in SettledBy(c), d \in Existing, Trigger[d] # NoJob, ~Stopped(d),
                      NEW e \in pending, e[1] = Trigger[d]
               PROVE  e = cEvent[c]
    <3>1. PICK settled : settled = SettledBy(c)
      OBVIOUS
    <3>2. cSettle'[c] = settled /\ UNCHANGED <<jobState, pending, cEvent>>
      BY <3>1, <1>1
    <3> QED
      BY <3>1, <3>2 DEF SettlesLast, Stopped
  <2> QED
    BY <1>1, CheckedLast
<1> QED
  BY <1>2, <1>3, <1>4, <1>5 DEF SingleConsumer

\* It commits.
LEMMA AccountCommits ==
  ASSUME AccountInv, SettleInv, IInv, SingleConsumer, [Next]_vars, NEW c \in Consumers, ConsumerCommits(c)
  PROVE  AccountInv'
<1> USE ContinuationAssumption DEF AccountInv
<1> DEFINE j == cEvent[c][1]
           k == cEvent[c][2]
           s == cEvent[c][3]
<1>1. Onward /\ \A x \in Jobs : ~Stopped(x)' => ~Stopped(x)
  BY StepOnward, StaysStopped
<1>2. SettledAfter(c) /\ InsertedAfter(c) /\ KeptAfter /\ pending' = pending \ {cEvent[c]}
  BY CommitEffects
<1>3. /\ jobState' = [x \in Jobs |-> IF x \in cSettle[c] THEN "completed" ELSE jobState[x]]
      /\ dropped' = dropped \union cDrop[c] /\ EndTransaction(c) /\ cpc[c] = "checked"
  BY DEF ConsumerCommits
<1>4. cEvent[c] \in pending
  BY <1>3 DEF EventHeld
<1>5. /\ j \in Jobs /\ k \in Ticks /\ s \in Terminal /\ cEvent[c] = <<j, k, s>>
      /\ jobState[j] # "cancelled" => runs[j][k] = s /\ runs[j][k] # "none"
  BY <1>4, EventOfRun
<1> HIDE DEF j, k, s
<1>6. ASSUME NEW x \in Jobs, NEW y \in Ticks, <<x, y>> \in cSpawn[c], ~Stopped(x)
      PROVE  \/ x \in Recurring
             \/ /\ Trigger[x] = j /\ y = k /\ Trigger[x] # NoJob
                /\ runs[j][k] = s /\ ~Stopped(j) /\ jobState[j] # "cancelled"
  <2>1. x \in Recurring \/ (Trigger[x] = j /\ y = k)
    BY <1>6 DEF IInv, TxInv, SpawnsOne, j, k
  <2> QED
    BY <2>1, <1>5, <1>6, TriggerGoesOn
<1>7. Present'
  BY <1>3 DEF Present
<1>8. OneTick'
  <2> SUFFICES ASSUME NEW x \in Jobs, NEW y \in Ticks, y # 1, runs'[x][y] # "none", ~Stopped(x)'
               PROVE  \E z \in {x} \union Upstream(x) : z \in Recurring
    BY DEF OneTick
  <2>1. ~Stopped(x)
    BY <1>1
  <2>2. CASE <<x, y>> \notin cSpawn[c]
    <3>1. runs[x][y] # "none"
      BY <2>2, <1>2 DEF InsertedAfter
    <3> QED
      BY <3>1, <2>1 DEF OneTick
  <2>3. CASE <<x, y>> \in cSpawn[c] /\ x \notin Recurring
    <3>1. Trigger[x] = j /\ y = k /\ Trigger[x] # NoJob /\ runs[j][k] # "none" /\ ~Stopped(j)
      BY <2>1, <2>3, <1>5, <1>6
    <3>2. PICK z \in {j} \union Upstream(j) : z \in Recurring
      BY <3>1, <1>5 DEF OneTick
    <3> QED
      BY <3>1, <3>2, UpstreamOfTrigger
  <2> QED
    BY <2>2, <2>3
<1>9. Caused'
  <2> SUFFICES ASSUME NEW d \in Jobs, NEW y \in Ticks, Trigger[d] # NoJob, runs'[d][y] # "none", ~Stopped(d)'
               PROVE  /\ runs'[Trigger[d]][y] \in Terminal
                      /\ \A t \in Terminal : <<Trigger[d], y, t>> \notin pending'
    BY DEF Caused
  <2>1. ~Stopped(d) /\ Trigger[d] \in Jobs /\ d \notin Recurring
    BY <1>1
  <2>2. CASE <<d, y>> \notin cSpawn[c]
    <3>1. runs[d][y] # "none"
      BY <2>2, <1>2 DEF InsertedAfter
    <3>2. /\ runs[Trigger[d]][y] \in Terminal
          /\ \A t \in Terminal : <<Trigger[d], y, t>> \notin pending
      BY <3>1, <2>1 DEF Caused
    <3>3. runs'[Trigger[d]][y] = runs[Trigger[d]][y]
      BY <3>2, <2>1, <1>2, Statuses DEF KeptAfter
    <3> QED
      BY <3>2, <3>3, <1>2
  <2>3. CASE <<d, y>> \in cSpawn[c]
    <3>1. Trigger[d] = j /\ y = k /\ runs[j][k] = s /\ jobState[j] # "cancelled"
      BY <2>1, <2>3, <1>6
    <3>2. runs'[j][k] = s
      BY <3>1, <1>2, <1>5, Statuses DEF KeptAfter
    <3>3. \A t \in Terminal : <<j, k, t>> \in pending => t = s
      BY <3>1, <1>5 DEF IInv, RowsInv, EventsTell
    <3> QED
      BY <3>1, <3>2, <3>3, <1>2, <1>5
  <2> QED
    BY <2>2, <2>3
<1>10. SettledLast'
  <2> SUFFICES ASSUME NEW d \in Existing, Trigger[d] # NoJob, jobState'[d] = "completed", ~Stopped(d)',
                      NEW e \in pending', e[1] = Trigger[d]
               PROVE  FALSE
    BY DEF SettledLast
  <2>1. ~Stopped(d) /\ d \in Jobs /\ e \in pending /\ e # cEvent[c]
    BY <1>1, <1>2
  <2>2. CASE d \in cSettle[c]
    BY <2>1, <2>2 DEF SettlesLast
  <2>3. CASE d \notin cSettle[c]
    BY <2>1, <2>3, <1>3 DEF SettledLast
  <2> QED
    BY <2>2, <2>3
<1>11. TriggerAccounted'
  <2> SUFFICES ASSUME NEW d \in Existing, NEW y \in Ticks, NEW t \in {"SUCCEEDED", "FAILED"},
                      Trigger[d] # NoJob, ~Stopped(d)', TriggersOn(d, t),
                      runs'[Trigger[d]][y] = t, <<Trigger[d], y, t>> \notin pending'
               PROVE  runs'[d][y] # "none" \/ <<d, y>> \in dropped'
    BY DEF TriggerAccounted, TriggersOn
  <2>1. d \in Jobs /\ ~Stopped(d) /\ Trigger[d] \in Jobs
    BY <1>1
  <2>2. runs[Trigger[d]][y] = t
    <3>1. <<Trigger[d], y>> \notin cSpawn[c]
      BY <2>1, <1>2 DEF InsertedAfter
    <3> QED
      BY <3>1, <2>1, <1>2 DEF InsertedAfter
  <2>3. CASE <<Trigger[d], y, t>> \notin pending
    <3>1. runs[d][y] # "none" \/ <<d, y>> \in dropped
      BY <2>1, <2>2, <2>3 DEF TriggerAccounted
    <3> QED
      BY <3>1, <2>1, <1>2, <1>3 DEF KeptAfter
  <2>4. CASE <<Trigger[d], y, t>> \in pending
    <3>1. <<Trigger[d], y, t>> = cEvent[c]
      BY <2>4, <1>2
    <3>2. Trigger[d] = cEvent[c][1] /\ y = cEvent[c][2] /\ t = cEvent[c][3]
      BY <3>1
    <3>3. <<d, y>> \in cSpawn[c] \/ <<d, y>> \in cDrop[c] \/ runs[d][y] # "none"
      BY <3>2, <2>1, <1>3 DEF Accounts
    <3>4. <<d, y>> \in cSpawn[c] => runs'[d][y] # "none"
      BY <2>1, <1>2 DEF InsertedAfter
    <3> QED
      BY <3>3, <3>4, <2>1, <1>2, <1>3 DEF KeptAfter
  <2> QED
    BY <2>3, <2>4
<1>12. ASSUME NEW x \in Consumers PROVE EventHeld(x)' /\ ListsAll(x)' /\ Accounts(x)' /\ SettlesLast(x)'
  BY <1>3, Alone DEF EventHeld, ListsAll, Accounts, SettlesLast
<1> QED
  BY <1>7, <1>8, <1>9, <1>10, <1>11, <1>12

\* At the start.
LEMMA AccountInit == Init => AccountInv
<1> SUFFICES ASSUME Init PROVE AccountInv
  OBVIOUS
<1> USE ContinuationAssumption DEF Init
<1>1. \A j \in Jobs, k \in Ticks : runs[j][k] # "none" => k = 1 /\ Trigger[j] = NoJob /\ runs[j][k] = "PENDING"
  BY DEF FirstRun
<1>2. Present /\ OneTick /\ Caused /\ SettledLast
  BY <1>1 DEF Present, OneTick, Caused, SettledLast
<1>3. TriggerAccounted
  BY <1>1 DEF TriggerAccounted
<1>4. ASSUME NEW c \in Consumers PROVE EventHeld(c) /\ ListsAll(c) /\ Accounts(c) /\ SettlesLast(c)
  BY DEF EventHeld, ListsAll, Accounts, SettlesLast
<1> QED
  BY <1>2, <1>3, <1>4 DEF AccountInv

\* Every step.
LEMMA AccountNext ==
  ASSUME SingleConsumer, IInv, SettleInv, AccountInv, [Next]_vars
  PROVE  AccountInv'
<1>1. IInv'
  BY NextInv
<1>2. World \/ \E c \in Consumers : ConsumerStep(c) \/ ConsumerAborts(c)
  BY StepKinds DEF SettleInv
<1>3. CASE World
  BY <1>1, <1>3, AccountWorld
<1>4. ASSUME NEW c \in Consumers, ConsumerStep(c) \/ ConsumerAborts(c) PROVE AccountInv'
  BY <1>4, AccountLoads, AccountLists, AccountChecks, AccountCommits DEF ConsumerStep
<1> QED
  BY <1>2, <1>3, <1>4

\* With one consumer, what an event has led to and what it may still lead to are
\* accounted for in every reachable state.
THEOREM AccountInvariance == SingleConsumer => (Spec => []AccountInv)
<1> SUFFICES ASSUME SingleConsumer PROVE Spec => []AccountInv
  OBVIOUS
<1>1. IInv /\ SettleInv /\ AccountInv /\ [Next]_vars => AccountInv'
  BY AccountNext
<1> QED
  BY <1>1, AccountInit, SettleInvariance, ContinuationInvariance, PTL DEF Spec

\* With one consumer, every handled event whose status satisfies a downstream
\* job's trigger_on_status has led to a run of that job or to an audited drop,
\* unless the pipeline was stopped.  (With two, a second handling of an event may
\* settle the rest of the pipeline while an event is unprocessed.)
THEOREM NoTriggerLost == SingleConsumer => (Spec => []TriggerAccounted)
<1> SUFFICES ASSUME SingleConsumer PROVE Spec => []TriggerAccounted
  OBVIOUS
<1>1. AccountInv => TriggerAccounted
  BY DEF AccountInv
<1> QED
  BY <1>1, AccountInvariance, PTL

----------------------------------------------------------------------------
(* What is left to a job whose trigger is over: the invariant *)

\* An event of a run that is executing is not the one a consumer handles.
LEMMA OtherEvent ==
  ASSUME IInv, NEW c \in Consumers, cpc[c] # "idle",
         NEW x \in Jobs, NEW y \in Ticks, NEW s \in Terminal,
         runs[x][y] \in Executing, jobState[x] # "cancelled"
  PROVE  <<x, y, s>> # cEvent[c]
<1> SUFFICES ASSUME <<x, y, s>> = cEvent[c] PROVE FALSE
  OBVIOUS
<1>1. cEvent[c][1] = x /\ cEvent[c][2] = y /\ cEvent[c][3] \in Terminal
  BY EventShape DEF IInv, TxInv, EventLoaded
<1>2. runs[x][y] = cEvent[c][3]
  BY <1>1 DEF IInv, TxInv, EventLoaded
<1> QED
  BY <1>1, <1>2, Statuses

\* A job that was under way still is, or has left an event.
LEMMA WorkGoesOn ==
  ASSUME IInv, IInv', World, NEW j \in Jobs, jobState'[j] # "cancelled", HasExecutingRun(j)
  PROVE  \/ HasExecutingRun(j)'
         \/ \E y \in Ticks, s \in Terminal : <<j, y, s>> \in pending' /\ runs[j][y] \in Executing
<1>1. PICK y \in Ticks : runs[j][y] \in Executing
  BY DEF HasExecutingRun
<1>2. runs'[j][y] \in Executing \union Terminal
  <2>1. runs'[j][y] # "none"
    BY <1>1, Statuses DEF World, RunsOnward
  <2>2. runs' \in [Jobs -> [Ticks -> Executing \union Terminal \union {"none"}]]
    BY DEF IInv, TypeOK
  <2> QED
    BY <2>1, <2>2
<1>3. runs'[j][y] \in Terminal => <<j, y, runs'[j][y]>> \in pending'
  BY <1>1, Statuses DEF World, RunsOnward
<1> QED
  BY <1>1, <1>2, <1>3 DEF HasExecutingRun

\* What a step of everyone but the consumer does to an active job and its trigger.
LEMMA StrandJobs ==
  ASSUME IInv, IInv', NoneCreated, AccountInv, [Next]_vars, World,
         NEW j \in Jobs, Trigger[j] # NoJob, jobState'[j] = "active"
  PROVE  /\ Trigger[j] \in Jobs /\ jobState[j] = "active"
         /\ jobState'[Trigger[j]] = "cancelled" =>
              jobState[Trigger[j]] = "cancelled" \/ HasExecutingRun(j)'
         /\ jobState'[Trigger[j]] = "completed" =>
              \/ jobState[Trigger[j]] = "completed" \/ HasExecutingRun(j)'
              \/ /\ jobState[Trigger[j]] = "active"
                 /\ \E y \in Ticks, s \in Terminal :
                      <<Trigger[j], y, s>> \in pending' /\ runs[Trigger[j]][y] \in Executing
<1>1. Onward /\ Completes /\ Cancels
  BY StepOnward DEF World
<1>2. Trigger[j] \in Jobs
  BY ContinuationAssumption
<1>3. \A x \in Jobs : jobState[x] \in JobState \ {"absent"}
  BY DEF AccountInv, Present, NoneCreated, IInv, TypeOK
<1>4. jobState[j] = "active"
  BY <1>1, <1>3 DEF Onward, JobState
<1>5. UnderWay(Trigger[j]) => HasExecutingRun(j)'
  BY DEF UnderWay, HasExecutingRun
<1>6. jobState'[Trigger[j]] = "cancelled" => jobState[Trigger[j]] = "cancelled" \/ HasExecutingRun(j)'
  BY <1>1, <1>2, <1>3, <1>5 DEF Onward, Cancels, JobState
<1>7. jobState'[Trigger[j]] = "completed" /\ jobState[Trigger[j]] # "completed" =>
        jobState[Trigger[j]] = "active"
  BY <1>1, <1>2, <1>3 DEF Onward, JobState
<1> QED
  BY <1>1, <1>2, <1>4, <1>5, <1>6, <1>7 DEF Completes

\* Everyone but the consumer.
LEMMA StrandWorld ==
  ASSUME IInv, IInv', NoneCreated, AccountInv, StrandInv, [Next]_vars, World
  PROVE  StrandInv'
<1> USE DEF StrandInv
<1>1. pending \subseteq pending'
  BY DEF World, EventsOnward
<1>2. UNCHANGED <<cpc, cEvent, cSeen, cDowns, cSpawn, cSettle>>
  BY DEF World, txVars
<1>3. OwnWork'
  <2> SUFFICES ASSUME NEW j \in Jobs, Trigger[j] # NoJob, jobState'[j] = "active",
                      jobState'[Trigger[j]] = "cancelled", ~HasExecutingRun(j)'
               PROVE  \E e \in pending' : e[1] = j
    BY DEF OwnWork
  <2>1. jobState[j] = "active" /\ jobState[Trigger[j]] = "cancelled"
    BY StrandJobs
  <2>2. HasExecutingRun(j) => \E y \in Ticks, s \in Terminal : <<j, y, s>> \in pending'
    BY WorkGoesOn
  <2> QED
    BY <2>1, <2>2, <1>1 DEF OwnWork
<1>4. NotStranded'
  <2> SUFFICES ASSUME NEW j \in Jobs, Trigger[j] # NoJob, jobState'[j] = "active",
                      jobState'[Trigger[j]] \in {"completed", "cancelled"}, ~HasExecutingRun(j)'
               PROVE  \E e \in pending' : e[1] \in {j, Trigger[j]}
    BY DEF NotStranded
  <2>1. CASE jobState'[Trigger[j]] = "cancelled"
    BY <2>1, <1>3 DEF OwnWork
  <2>2. CASE jobState'[Trigger[j]] = "completed" /\ jobState[Trigger[j]] = "completed"
    <3>1. jobState[j] = "active"
      BY StrandJobs
    <3>2. HasExecutingRun(j) => \E y \in Ticks, s \in Terminal : <<j, y, s>> \in pending'
      BY WorkGoesOn
    <3> QED
      BY <3>1, <3>2, <2>2, <1>1 DEF NotStranded
  <2>3. CASE jobState'[Trigger[j]] = "completed" /\ jobState[Trigger[j]] # "completed"
    <3>1. PICK y \in Ticks, s \in Terminal : <<Trigger[j], y, s>> \in pending'
      BY <2>3, StrandJobs
    <3> QED
      BY <3>1
  <2> QED
    BY <2>1, <2>2, <2>3
<1>5. ASSUME NEW c \in Consumers PROVE ListsActive(c)'
  <2>1. \A j \in Jobs : jobState'[j] = "active" /\ Trigger[j] # NoJob => jobState[j] = "active"
    BY StrandJobs
  <2>2. cpc[c] = "listed" => cEvent[c][1] # NoJob
    BY HandsOn, ContinuationAssumption
  <2> QED
    BY <2>1, <2>2, <1>2 DEF ListsActive
<1>6. ASSUME NEW c \in Consumers PROVE LeavesWork(c)'
  <2> DEFINE Busy(j) == \/ j \in cSettle[c] \/ \E k \in Ticks : <<j, k>> \in cSpawn[c]
  <2> SUFFICES ASSUME cpc[c] = "checked", NEW j \in Jobs, Trigger[j] # NoJob, jobState'[j] = "active",
                      ~HasExecutingRun(j)', ~Busy(j)
               PROVE  /\ jobState'[Trigger[j]] = "cancelled" =>
                           \E e \in pending' : e[1] = j /\ e # cEvent[c]
                      /\ jobState'[Trigger[j]] = "completed" \/ Trigger[j] \in cSettle[c] =>
                           \E e \in pending' : e[1] \in {j, Trigger[j]} /\ e # cEvent[c]
    BY <1>2 DEF LeavesWork
  <2>1. jobState[j] = "active" /\ Trigger[j] \in Jobs
    BY StrandJobs
  <2>2. HasExecutingRun(j) => \E e \in pending' : e[1] = j /\ e # cEvent[c]
    <3> SUFFICES ASSUME HasExecutingRun(j) PROVE \E e \in pending' : e[1] = j /\ e # cEvent[c]
      OBVIOUS
    <3>1. PICK y \in Ticks, s \in Terminal : <<j, y, s>> \in pending' /\ runs[j][y] \in Executing
      BY WorkGoesOn
    <3>2. <<j, y, s>> # cEvent[c]
      BY <3>1, <2>1, OtherEvent
    <3> QED
      BY <3>1, <3>2
  <2>3. jobState'[Trigger[j]] = "cancelled" => \E e \in pending' : e[1] = j /\ e # cEvent[c]
    <3>1. jobState'[Trigger[j]] = "cancelled" => jobState[Trigger[j]] = "cancelled"
      BY StrandJobs
    <3> QED
      BY <3>1, <2>1, <2>2, <1>1 DEF LeavesWork
  <2>4. jobState[Trigger[j]] = "completed" \/ Trigger[j] \in cSettle[c] =>
          \E e \in pending' : e[1] \in {j, Trigger[j]} /\ e # cEvent[c]
    BY <2>1, <2>2, <1>1 DEF LeavesWork
  <2>5. jobState'[Trigger[j]] = "completed" /\ jobState[Trigger[j]] # "completed" =>
          \E e \in pending' : e[1] \in {j, Trigger[j]} /\ e # cEvent[c]
    <3> SUFFICES ASSUME jobState'[Trigger[j]] = "completed", jobState[Trigger[j]] # "completed"
                 PROVE  \E e \in pending' : e[1] \in {j, Trigger[j]} /\ e # cEvent[c]
      OBVIOUS
    <3>1. /\ jobState[Trigger[j]] = "active"
          /\ \E y \in Ticks, s \in Terminal :
               <<Trigger[j], y, s>> \in pending' /\ runs[Trigger[j]][y] \in Executing
      BY StrandJobs
    <3>2. PICK y \in Ticks, s \in Terminal :
               <<Trigger[j], y, s>> \in pending' /\ runs[Trigger[j]][y] \in Executing
      BY <3>1
    <3>3. <<Trigger[j], y, s>> # cEvent[c]
      BY <3>1, <3>2, <2>1, OtherEvent
    <3> QED
      BY <3>2, <3>3
  <2> QED
    BY <2>3, <2>4, <2>5
<1> QED
  BY <1>3, <1>4, <1>5, <1>6

\* A job with nothing under way that the check reaches after its trigger is over
\* is settled, unless the check inserts a run of it.
LEMMA SettledOrBusy ==
  ASSUME IInv, NEW c \in Consumers, cpc[c] = "listed",
         NEW j \in Jobs, Trigger[j] # NoJob, jobState[j] = "active",
         \/ j \in cDowns[c] \union {cEvent[c][1]} /\ jobState[Trigger[j]] # "active"
         \/ Trigger[j] \in SettledBy(c)
  PROVE  \/ j \in SettledBy(c) \/ HasExecutingRun(j)
         \/ \E k \in Ticks : <<j, k>> \in Inserts(c)
<1> SUFFICES ASSUME ~HasExecutingRun(j), \A k \in Ticks : <<j, k>> \notin Inserts(c)
             PROVE  j \in SettledBy(c)
  OBVIOUS
<1>1. j \notin Recurring
  BY ContinuationAssumption
<1>2. Inserts(c) \subseteq RunIds
  <2>1. cDowns[c] \subseteq Jobs /\ cSpawn[c] \subseteq RunIds /\ cEvent[c][2] \in Ticks
    BY HandsOn DEF IInv, TypeOK
  <2> QED
    BY <2>1 DEF Inserts, Triggered, RunIds
<1>3. j \notin BusyJobs(c)
  <2> SUFFICES ASSUME NEW r \in Inserts(c), r[1] = j PROVE FALSE
    BY DEF BusyJobs
  <2>1. r[2] \in Ticks /\ r = <<j, r[2]>>
    BY <1>2, RunShape
  <2> QED
    BY <2>1
<1>4. PICK roots, busy : roots = cDowns[c] \union {cEvent[c][1]} /\ busy = BusyJobs(c)
  OBVIOUS
<1>5. SettledBy(c) = SettleCheck(roots, jobState, busy)
  BY <1>4 DEF SettledBy
<1> QED
  BY <1>1, <1>3, <1>4, <1>5, SettleCheckTakes

\* The consumer loads its event, or aborts.
LEMMA StrandLoads ==
  ASSUME StrandInv, IInv, SingleConsumer, NEW c \in Consumers,
         (\E e \in pending : ConsumerLoads(c, e)) \/ ConsumerAborts(c)
  PROVE  StrandInv'
<1>1. UNCHANGED <<jobState, runs, pending>>
  BY DEF ConsumerLoads, ConsumerAborts, jobVars, runVars
<1>2. OwnWork' /\ NotStranded'
  BY <1>1 DEF StrandInv, OwnWork, NotStranded, HasExecutingRun
<1>3. cpc'[c] \in {"idle", "loaded"}
  BY DEF ConsumerLoads, ConsumerAborts, EndTransaction, IInv, TypeOK
<1>4. ASSUME NEW x \in Consumers PROVE ListsActive(x)' /\ LeavesWork(x)'
  BY <1>3 DEF SingleConsumer, ListsActive, LeavesWork
<1> QED
  BY <1>2, <1>4 DEF StrandInv

\* It lists the jobs downstream.
LEMMA StrandLists ==
  ASSUME StrandInv, IInv, SingleConsumer, NEW c \in Consumers, ConsumerLists(c)
  PROVE  StrandInv'
<1>1. UNCHANGED <<jobState, runs, pending, cEvent, cSeen>>
  BY DEF ConsumerLists, jobVars, runVars
<1>2. OwnWork' /\ NotStranded'
  BY <1>1 DEF StrandInv, OwnWork, NotStranded, HasExecutingRun
<1>3. /\ cpc'[c] = "listed"
      /\ cDowns'[c] = IF cSeen[c] = "cancelled" THEN {}
                      ELSE {d \in Downstream({cEvent[c][1]}) : jobState[d] = "active"}
  BY DEF ConsumerLists, IInv, TypeOK
<1>4. ListsActive(c)'
  BY <1>1, <1>3 DEF ListsActive, Downstream
<1>5. LeavesWork(c)'
  BY <1>3 DEF LeavesWork
<1> QED
  BY <1>2, <1>4, <1>5 DEF StrandInv, SingleConsumer

\* It settles the jobs whose last event it handles, or inserts a run of them.
LEMMA StrandChecks ==
  ASSUME StrandInv, IInv, SingleConsumer, NEW c \in Consumers, ConsumerChecks(c)
  PROVE  StrandInv'
<1> USE DEF StrandInv
<1>1. /\ cpc[c] = "listed" /\ cpc'[c] = "checked"
      /\ cSpawn'[c] = Inserts(c) /\ cSettle'[c] = SettledBy(c)
      /\ UNCHANGED <<jobState, runs, pending, cEvent>>
  BY CheckEffects
<1>2. OwnWork' /\ NotStranded'
  BY <1>1 DEF OwnWork, NotStranded, HasExecutingRun
<1>3. ListsActive(c)'
  BY <1>1 DEF ListsActive
<1>4. ASSUME NEW j \in Jobs, Trigger[j] # NoJob, jobState[j] = "active",
             ~HasExecutingRun(j), j \notin SettledBy(c), \A k \in Ticks : <<j, k>> \notin Inserts(c)
      PROVE  /\ jobState[Trigger[j]] = "cancelled" => \E e \in pending : e[1] = j /\ e # cEvent[c]
             /\ Trigger[j] \notin SettledBy(c)
             /\ jobState[Trigger[j]] = "completed" =>
                  \E e \in pending : e[1] \in {j, Trigger[j]} /\ e # cEvent[c]
  <2>1. Trigger[j] \notin SettledBy(c)
    BY <1>1, <1>4, SettledOrBusy
  <2>2. jobState[Trigger[j]] # "active" => j \notin cDowns[c] /\ j # cEvent[c][1]
    BY <1>1, <1>4, SettledOrBusy
  <2>3. jobState[Trigger[j]] = "cancelled" => \E e \in pending : e[1] = j /\ e # cEvent[c]
    BY <2>2, <1>4 DEF OwnWork
  <2>4. jobState[Trigger[j]] = "completed" => Trigger[j] # cEvent[c][1]
    <3> SUFFICES ASSUME jobState[Trigger[j]] = "completed", Trigger[j] = cEvent[c][1] PROVE FALSE
      OBVIOUS
    <3>1. cSeen[c] # "cancelled"
      BY <1>1 DEF IInv, TxInv, EventLoaded
    <3>2. j \in cDowns[c]
      BY <3>1, <1>1, <1>4 DEF ListsActive
    <3> QED
      BY <3>2, <2>2
  <2>5. jobState[Trigger[j]] = "completed" =>
          \E e \in pending : e[1] \in {j, Trigger[j]} /\ e # cEvent[c]
    BY <2>2, <2>4, <1>4 DEF NotStranded
  <2> QED
    BY <2>1, <2>3, <2>5
<1>5. LeavesWork(c)'
  <2>1. PICK settled, new : settled = SettledBy(c) /\ new = Inserts(c)
    OBVIOUS
  <2>2. cSettle'[c] = settled /\ cSpawn'[c] = new /\ jobState' = jobState /\ runs' = runs
        /\ pending' = pending /\ cEvent' = cEvent
    BY <2>1, <1>1
  <2> SUFFICES ASSUME NEW j \in Jobs, Trigger[j] # NoJob, jobState[j] = "active",
                      ~HasExecutingRun(j), j \notin settled, \A k \in Ticks : <<j, k>> \notin new
               PROVE  /\ jobState[Trigger[j]] = "cancelled" => \E e \in pending : e[1] = j /\ e # cEvent[c]
                      /\ jobState[Trigger[j]] = "completed" \/ Trigger[j] \in settled =>
                           \E e \in pending : e[1] \in {j, Trigger[j]} /\ e # cEvent[c]
    BY <2>2 DEF LeavesWork, HasExecutingRun
  <2> QED
    BY <2>1, <1>4
<1> QED
  BY <1>2, <1>3, <1>5 DEF SingleConsumer

\* It commits.
LEMMA StrandCommits ==
  ASSUME StrandInv, IInv, SingleConsumer, NEW c \in Consumers, ConsumerCommits(c)
  PROVE  StrandInv'
<1> USE DEF StrandInv
<1>1. InsertedAfter(c) /\ KeptAfter /\ pending' = pending \ {cEvent[c]}
  BY CommitEffects
<1>2. /\ jobState' = [x \in Jobs |-> IF x \in cSettle[c] THEN "completed" ELSE jobState[x]]
      /\ EndTransaction(c) /\ cpc[c] = "checked"
  BY DEF ConsumerCommits
<1>3. ASSUME NEW j \in Jobs, HasExecutingRun(j) \/ \E k \in Ticks : <<j, k>> \in cSpawn[c]
      PROVE  HasExecutingRun(j)'
  <2>1. PICK k \in Ticks : runs[j][k] \in Executing \/ <<j, k>> \in cSpawn[c]
    BY <1>3 DEF HasExecutingRun
  <2>2. runs'[j][k] \in Executing
    BY <2>1, <1>1, Statuses DEF InsertedAfter, KeptAfter
  <2> QED
    BY <2>2 DEF HasExecutingRun
<1>4. ASSUME NEW j \in Jobs, Trigger[j] # NoJob, jobState'[j] = "active", ~HasExecutingRun(j)'
      PROVE  /\ jobState'[Trigger[j]] = "cancelled" => \E e \in pending' : e[1] = j
             /\ jobState'[Trigger[j]] = "completed" =>
                  \E e \in pending' : e[1] \in {j, Trigger[j]}
  <2>1. Trigger[j] \in Jobs /\ jobState[j] = "active" /\ j \notin cSettle[c]
    BY <1>2, <1>4, ContinuationAssumption
  <2>2. ~HasExecutingRun(j) /\ \A k \in Ticks : <<j, k>> \notin cSpawn[c]
    BY <1>3, <1>4
  <2>3. /\ jobState'[Trigger[j]] = "cancelled" => jobState[Trigger[j]] = "cancelled"
        /\ jobState'[Trigger[j]] = "completed" =>
             jobState[Trigger[j]] = "completed" \/ Trigger[j] \in cSettle[c]
    BY <2>1, <1>2
  <2>4. /\ jobState[Trigger[j]] = "cancelled" => \E e \in pending : e[1] = j /\ e # cEvent[c]
        /\ jobState[Trigger[j]] = "completed" \/ Trigger[j] \in cSettle[c] =>
             \E e \in pending : e[1] \in {j, Trigger[j]} /\ e # cEvent[c]
    BY <2>1, <2>2, <1>2, <1>4 DEF LeavesWork
  <2> QED
    BY <2>3, <2>4, <1>1
<1>5. OwnWork' /\ NotStranded'
  BY <1>4 DEF OwnWork, NotStranded
<1>6. ASSUME NEW x \in Consumers PROVE ListsActive(x)' /\ LeavesWork(x)'
  BY <1>2, Alone DEF ListsActive, LeavesWork
<1> QED
  BY <1>5, <1>6

\* At the start.
LEMMA StrandInit == Init => StrandInv
<1> SUFFICES ASSUME Init PROVE StrandInv
  OBVIOUS
<1>1. \A j \in Jobs : jobState[j] \notin {"completed", "cancelled"}
  BY DEF Init
<1>2. OwnWork /\ NotStranded
  BY <1>1, ContinuationAssumption DEF OwnWork, NotStranded
<1>3. ASSUME NEW c \in Consumers PROVE ListsActive(c) /\ LeavesWork(c)
  BY DEF Init, ListsActive, LeavesWork
<1> QED
  BY <1>2, <1>3 DEF StrandInv

\* Every step.
LEMMA StrandNext ==
  ASSUME SingleConsumer, NoneCreated, IInv, SettleInv, AccountInv, StrandInv, [Next]_vars
  PROVE  StrandInv'
<1>1. IInv'
  BY NextInv
<1>2. World \/ \E c \in Consumers : ConsumerStep(c) \/ ConsumerAborts(c)
  BY StepKinds DEF SettleInv
<1>3. CASE World
  BY <1>1, <1>3, StrandWorld
<1>4. ASSUME NEW c \in Consumers, ConsumerStep(c) \/ ConsumerAborts(c) PROVE StrandInv'
  BY <1>4, StrandLoads, StrandLists, StrandChecks, StrandCommits DEF ConsumerStep
<1> QED
  BY <1>2, <1>3, <1>4

\* With one consumer and no job created on the way, a chained job whose trigger is
\* over has a run under way, or its own or its trigger's event is still to be
\* handled.
THEOREM NoneStranded == SingleConsumer /\ NoneCreated => (Spec => []NotStranded)
<1> SUFFICES ASSUME SingleConsumer, NoneCreated PROVE Spec => []NotStranded
  OBVIOUS
<1>1. IInv /\ SettleInv /\ AccountInv /\ StrandInv /\ [Next]_vars => StrandInv'
  BY StrandNext
<1>2. StrandInv => NotStranded
  BY DEF StrandInv
<1> QED
  BY <1>1, <1>2, StrandInit, AccountInvariance, SettleInvariance, ContinuationInvariance, PTL DEF Spec
=============================================================================
