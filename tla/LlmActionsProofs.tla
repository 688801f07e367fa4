-------------------------- MODULE LlmActionsProofs --------------------------
(***************************************************************************)
(* Proofs about LlmActions, for any runs, users and workers and any        *)
(* budget, ceiling and cost of a call.                                     *)
(***************************************************************************)
EXTENDS LlmActions, FiniteSetTheorems, FunctionTheorems, TLAPS

(* The inductive invariant *)

\* An answer that is still to be recorded is held by a worker at that point only.
CostWhenAnswered == \A w \in Workers : wCost[w] # 0 => pc[w] = "answered"

\* The text a worker sends holds data of its run's user only.
OwnText == \A w \in Workers : wText[w] # {} => pc[w] # "idle" /\ wText[w] = {User(w)}

\* No clock runs ahead, and nothing is recorded for a day that has not come.
DaysPass ==
  /\ \A w \in Workers : wDay[w] <= day
  /\ \A u \in Users, d \in Days : d > day => used[<<u, d>>] = 0

\* The workers that may still record a call of user u today without another look
\* at today's row: those the budget has allowed, and those that check yesterday's.
Armed(u) ==
  {w \in Workers : /\ pc[w] # "idle" /\ User(w) = u
                   /\ \/ pc[w] \in {"allowed", "answered"}
                      \/ pc[w] \in {"resolved", "under_ceiling"} /\ wDay[w] # day}

\* Today's usage stays within the bound, even if each of them records a call.
DailyCovered ==
  \A u \in Users : used[<<u, day>>] + MaxCost * Cardinality(Armed(u)) < Daily + Slack

\* The days of the month of day d.
Month(d) == {e \in Days : MonthStart[e] = MonthStart[d]}

\* The workers that may still record a call this month without another look at
\* this month's rows.
MonthArmed ==
  {w \in Workers : \/ pc[w] \in {"under_ceiling", "allowed", "answered"}
                   \/ pc[w] = "resolved" /\ MonthStart[wDay[w]] # MonthStart[day]}

\* This month's usage stays within the bound, even if each of them records a call.
MonthCovered ==
  HasCeiling => Total(used, Users \X Month(day)) + MaxCost * Cardinality(MonthArmed) < Ceiling + Slack

\* The inductive invariant.
IInv ==
  /\ TypeOK /\ CostWhenAnswered /\ OwnText /\ OwnDataOnly /\ DaysPass
  /\ DailyCovered /\ DailyOvershoot
  /\ MonthCovered /\ CeilingOvershoot
  /\ LedgerExact

----------------------------------------------------------------------------
(* Sums *)

\* A sum counts these tokens.
Tokens(f, S) == UNION {{x} \X (1 .. f[x]) : x \in S}

\* They are pairs of a member of S and a number.
LEMMA TokensAre ==
  ASSUME NEW f, NEW S, NEW p
  PROVE  p \in Tokens(f, S) <=> \E x \in S : p \in {x} \X (1 .. f[x])
  BY DEF Tokens

\* A sum is finite.
LEMMA TokensFinite ==
  ASSUME NEW S, IsFiniteSet(S), NEW f, \A x \in S : f[x] \in Nat
  PROVE  IsFiniteSet(Tokens(f, S)) /\ Total(f, S) \in Nat /\ Total(f, S) = Cardinality(Tokens(f, S))
<1> DEFINE P == {{x} \X (1 .. f[x]) : x \in S}
           g == [x \in S |-> {x} \X (1 .. f[x])]
<1>1. g \in Surjection(S, P)
  BY DEF Surjection
<1>2. IsFiniteSet(P)
  BY <1>1, FS_Surjection
<1>3. ASSUME NEW x \in S PROVE IsFiniteSet({x} \X (1 .. f[x]))
  <2>1. IsFiniteSet({x})
    BY FS_Singleton
  <2>2. IsFiniteSet(1 .. f[x])
    BY FS_Interval
  <2> QED
    BY <2>1, <2>2, FS_Product
<1>4. IsFiniteSet(UNION P)
  BY <1>2, <1>3, FS_UNION
<1> QED
  BY <1>4, FS_CardinalityType DEF Tokens, Total

\* A sum depends on the values in S only.
LEMMA TotalSame ==
  ASSUME NEW f, NEW g, NEW S, \A x \in S : f[x] = g[x]
  PROVE  Total(f, S) = Total(g, S)
<1>1. {{x} \X (1 .. f[x]) : x \in S} = {{x} \X (1 .. g[x]) : x \in S}
  OBVIOUS
<1> QED
  BY <1>1 DEF Total

\* One summand can be taken out.
LEMMA TotalSplit ==
  ASSUME NEW S, IsFiniteSet(S), NEW f, \A x \in S : f[x] \in Nat, NEW y \in S
  PROVE  Total(f, S) = Total(f, S \ {y}) + f[y]
<1> DEFINE A == Tokens(f, S \ {y})
           B == {y} \X (1 .. f[y])
<1>1. IsFiniteSet(S \ {y})
  BY FS_RemoveElement
<1>2. IsFiniteSet(A) /\ Total(f, S \ {y}) = Cardinality(A) /\ Cardinality(A) \in Nat
  BY <1>1, TokensFinite
<1>3. IsFiniteSet(B) /\ Cardinality(B) = f[y]
  <2>1. IsFiniteSet({y}) /\ Cardinality({y}) = 1
    BY FS_Singleton
  <2>2. IsFiniteSet(1 .. f[y]) /\ Cardinality(1 .. f[y]) = f[y]
    BY FS_Interval
  <2>3. IsFiniteSet(B) /\ Cardinality(B) = Cardinality({y}) * Cardinality(1 .. f[y])
    BY <2>1, <2>2, FS_Product
  <2> QED
    BY <2>1, <2>2, <2>3
<1>4. Tokens(f, S) = A \union B
  <2>1. ASSUME NEW p \in Tokens(f, S) PROVE p \in A \union B
    BY TokensAre
  <2>2. ASSUME NEW p \in A \union B PROVE p \in Tokens(f, S)
    BY TokensAre
  <2> QED
    BY <2>1, <2>2
<1>5. A \intersect B = {}
  <2> SUFFICES ASSUME NEW p \in A, p \in B PROVE FALSE
    OBVIOUS
  <2>1. PICK x \in S \ {y} : p \in {x} \X (1 .. f[x])
    BY TokensAre
  <2> HIDE DEF A
  <2> QED
    BY <2>1
<1>6. Total(f, S) = Cardinality(A \union B)
  BY <1>4, TokensFinite
<1> HIDE DEF A, B
<1>7. Cardinality(A \union B) = Cardinality(A) + Cardinality(B) - Cardinality(A \intersect B)
  BY <1>2, <1>3, FS_Union
<1>8. Cardinality(A \intersect B) = 0
  BY <1>5, FS_EmptySet
<1> QED
  BY <1>2, <1>3, <1>6, <1>7, <1>8

\* What becomes of a sum when one summand changes.
LEMMA TotalChange ==
  ASSUME NEW S, IsFiniteSet(S), NEW f, NEW g, NEW y \in S,
         \A x \in S : f[x] \in Nat /\ g[x] \in Nat,
         \A x \in S \ {y} : g[x] = f[x]
  PROVE  /\ Total(g, S) = Total(f, S) - f[y] + g[y]
         /\ Total(f, S) \in Nat /\ Total(g, S) \in Nat
<1>1. Total(f, S) = Total(f, S \ {y}) + f[y]
  BY TotalSplit
<1>2. Total(g, S) = Total(g, S \ {y}) + g[y]
  BY TotalSplit
<1>3. Total(f, S \ {y}) = Total(g, S \ {y})
  BY TotalSame
<1>4. IsFiniteSet(S \ {y})
  BY FS_RemoveElement
<1>5. Total(f, S \ {y}) \in Nat /\ Total(f, S) \in Nat /\ Total(g, S) \in Nat
  BY <1>4, TokensFinite
<1> QED
  BY <1>1, <1>2, <1>3, <1>5

\* A sum over fewer summands is no larger.
LEMMA TotalSubset ==
  ASSUME NEW S, IsFiniteSet(S), NEW T \in SUBSET S, NEW f, \A x \in S : f[x] \in Nat
  PROVE  Total(f, T) <= Total(f, S)
<1>1. Tokens(f, T) \in SUBSET Tokens(f, S)
  BY TokensAre
<1>2. IsFiniteSet(T)
  BY FS_Subset
<1>3. IsFiniteSet(Tokens(f, S)) /\ Total(f, S) = Cardinality(Tokens(f, S))
  BY TokensFinite
<1>4. Total(f, T) = Cardinality(Tokens(f, T))
  BY <1>2, TokensFinite
<1> QED
  BY <1>1, <1>3, <1>4, FS_Subset

\* A sum of zeros.
LEMMA TotalZero ==
  ASSUME NEW S, NEW f, \A x \in S : f[x] = 0
  PROVE  Total(f, S) = 0
<1>1. Tokens(f, S) = {}
  <2> SUFFICES ASSUME NEW p \in Tokens(f, S) PROVE FALSE
    OBVIOUS
  <2>1. PICK x \in S : p \in {x} \X (1 .. f[x])
    BY TokensAre
  <2> QED
    BY <2>1
<1> QED
  BY <1>1, FS_EmptySet DEF Tokens, Total

\* Products.
LEMMA Products ==
  ASSUME NEW c \in Nat, NEW m \in Nat, NEW n \in Nat
  PROVE  /\ c * m \in Nat /\ c * (m + 1) = c * m + c
         /\ m <= n => c * m <= c * n
<1>1. c * m \in Nat /\ c * (m + 1) = c * m + c
  OBVIOUS
<1>2. ASSUME m <= n PROVE c * m <= c * n
  <2>1. PICK k \in Nat : n = m + k
    BY <1>2
  <2>2. c * n = c * m + c * k /\ c * k \in Nat /\ c * m \in Nat
    BY <2>1
  <2> QED
    BY <2>2
<1> QED
  BY <1>1, <1>2

----------------------------------------------------------------------------
(* Types, and whose data *)

\* The sets that are summed or counted over are finite.
LEMMA FiniteSums ==
  /\ IsFiniteSet(Workers) /\ Cardinality(Workers) \in Nat
  /\ \A D \in SUBSET Days, V \in SUBSET Users : IsFiniteSet(V \X D)
<1>1. IsFiniteSet(Days) /\ IsFiniteSet(Users) /\ IsFiniteSet(Workers)
  BY LlmAssumption, FS_Interval DEF Days
<1>2. ASSUME NEW D \in SUBSET Days, NEW V \in SUBSET Users PROVE IsFiniteSet(V \X D)
  <2>1. IsFiniteSet(D) /\ IsFiniteSet(V)
    BY <1>1, FS_Subset
  <2> QED
    BY <2>1, FS_Product
<1> QED
  BY <1>1, <1>2, FS_CardinalityType

\* A worker that executes has a run, and its run a user.
LEMMA OfItsRun ==
  ASSUME TypeOK, NEW w \in Workers, pc[w] # "idle"
  PROVE  wRun[w] \in Runs /\ wRun[w] \in AllRuns /\ User(w) \in Users
  BY LlmAssumption DEF TypeOK, User, AllRuns

\* The end of an execution keeps the types of the worker's variables.
LEMMA ReleaseType ==
  ASSUME TypeOK, NEW w \in Workers, Release(w)
  PROVE  /\ pc' \in [Workers -> {"idle"} \union Executing]
         /\ wRun' \in [Workers -> Runs \union {NoRun}]
         /\ \A x \in Workers : pc'[x] # "idle" => wRun'[x] \in Runs
         /\ wText' \in [Workers -> SUBSET Users]
         /\ wDay' \in [Workers -> Days]
         /\ wCost' \in [Workers -> 0 .. MaxCost]
<1>1. 1 \in Days /\ 0 \in 0 .. MaxCost
  BY LlmAssumption DEF Days
<1> QED
  BY <1>1 DEF TypeOK, Release

\* A step of an execution keeps them.
LEMMA StepType ==
  ASSUME TypeOK, NEW w \in Workers, pc[w] # "idle", NEW s \in Executing, Step(w, s)
  PROVE  /\ pc' \in [Workers -> {"idle"} \union Executing]
         /\ wRun' \in [Workers -> Runs \union {NoRun}]
         /\ \A x \in Workers : pc'[x] # "idle" => wRun'[x] \in Runs
  BY DEF TypeOK, Step

\* read_upstream returns data of the user it is asked for, or nothing.
LEMMA OwnUpstream ==
  ASSUME OwnDataOnly, NEW r, NEW u \in Users
  PROVE  ReadUpstream(r, u) \subseteq {u}
  BY DEF OwnDataOnly, ReadUpstream

\* The text a run sends is its user's.
LEMMA OwnInput ==
  ASSUME OwnDataOnly, NEW r \in Runs
  PROVE  (IF Params[r] = "text" THEN {UserOf[r]} ELSE ReadUpstream(FromRun(r), UserOf[r]))
           \subseteq {UserOf[r]}
<1>1. UserOf[r] \in Users
  BY LlmAssumption DEF AllRuns
<1> QED
  BY <1>1, OwnUpstream

\* Every step keeps the types.
LEMMA TypeInv == IInv /\ [Next]_vars => TypeOK'
<1> SUFFICES ASSUME IInv, [Next]_vars PROVE TypeOK'
  OBVIOUS
<1> USE LlmAssumption
<1>0. TypeOK
  BY DEF IInv
<1>1. ASSUME NEW p \in Sources, SourceEnds(p) PROVE TypeOK'
  BY <1>0, <1>1, SMTT(30) DEF TypeOK, SourceEnds, workerVars, AllRuns, Ended
<1>2. ASSUME NEW r \in Runs, Materialize(r) \/ GiveUp(r) PROVE TypeOK'
  BY <1>0, <1>2 DEF TypeOK, Materialize, GiveUp, workerVars, AllRuns, Ended
<1>3. ASSUME NEW w \in Workers, NEW r \in Runs, Claim(w, r) PROVE TypeOK'
  <2>1. tries' \in 0 .. MaxTries
    BY <1>0, <1>3 DEF TypeOK, Claim
  <2>2. row' \in [AllRuns -> {"absent", "ready", "running", "retrying"} \union Ended]
    BY <1>0, <1>3, SMTT(30) DEF TypeOK, Claim, AllRuns, Ended
  <2>3. /\ pc' \in [Workers -> {"idle"} \union Executing]
        /\ wRun' \in [Workers -> Runs \union {NoRun}]
        /\ \A x \in Workers : pc'[x] # "idle" => wRun'[x] \in Runs
    <3>1. CASE UNCHANGED <<pc, wRun>>
      BY <1>0, <3>1 DEF TypeOK
    <3>2. CASE pc' = [pc EXCEPT ![w] = "claimed"] /\ wRun' = [wRun EXCEPT ![w] = r]
      <4>1. "claimed" \in Executing
        BY DEF Executing
      <4> QED
        BY <1>0, <3>2, <4>1 DEF TypeOK
    <3> QED
      BY <1>3, <3>1, <3>2 DEF Claim
  <2> QED
    BY <1>0, <1>3, <2>1, <2>2, <2>3 DEF TypeOK, Claim
<1>4. ASSUME NEW w \in Workers, Execute(w) \/ Interrupted(w) PROVE TypeOK'
  <2>0. pc[w] # "idle"
    BY <1>4 DEF Execute, ResolveInput, CheckCeiling, CheckDaily, Answered, CallRetryable,
                CallRefused, RecordUsage, RecordFails, Succeed, Interrupted
  <2>1. wRun[w] \in Runs /\ wRun[w] \in AllRuns /\ User(w) \in Users /\ wCost[w] \in 0 .. MaxCost
    BY <1>0, <2>0, OfItsRun DEF TypeOK
  <2>2. CASE ResolveInput(w)
    <3>1. CASE EndFailed(w) /\ UNCHANGED <<day, used, billed, unrecorded>>
      <4>1. row' \in [AllRuns -> {"absent", "ready", "running", "retrying"} \union Ended]
        BY <1>0, <2>1, <3>1 DEF TypeOK, EndFailed, Ended
      <4> QED
        BY <1>0, <3>1, <4>1, ReleaseType DEF TypeOK, EndFailed
    <3>2. CASE ~EndFailed(w)
      <4> DEFINE text == IF Params[wRun[w]] = "text" THEN {UserOf[wRun[w]]}
                         ELSE ReadUpstream(FromRun(wRun[w]), UserOf[wRun[w]])
      <4>1. /\ Step(w, "resolved")
            /\ wText' = [wText EXCEPT ![w] = text]
            /\ wDay' = [wDay EXCEPT ![w] = day]
            /\ UNCHANGED <<rowVars, wCost>>
            /\ UNCHANGED <<day, used, billed, unrecorded>>
        BY <2>2, <3>2 DEF ResolveInput
      <4>2. text \in SUBSET Users
        <5>1. text \subseteq {UserOf[wRun[w]]}
          BY <2>1, OwnInput DEF IInv
        <5> QED
          BY <5>1, <2>1 DEF User
      <4> HIDE DEF text
      <4>3. "resolved" \in Executing
        BY DEF Executing
      <4>4. wText' \in [Workers -> SUBSET Users] /\ wDay' \in [Workers -> Days]
        BY <1>0, <4>1, <4>2 DEF TypeOK
      <4> QED
        BY <1>0, <2>0, <4>1, <4>3, <4>4, StepType DEF TypeOK, rowVars
    <3> QED
      BY <2>2, <3>1, <3>2 DEF ResolveInput
  <2>3. CASE CheckCeiling(w) \/ CheckDaily(w)
    <3>1. CASE EndFailed(w) /\ UNCHANGED <<day, used, billed, unrecorded>>
      <4>1. row' \in [AllRuns -> {"absent", "ready", "running", "retrying"} \union Ended]
        BY <1>0, <2>1, <3>1 DEF TypeOK, EndFailed, Ended
      <4> QED
        BY <1>0, <3>1, <4>1, ReleaseType DEF TypeOK, EndFailed
    <3>2. ASSUME NEW s \in {"under_ceiling", "allowed"}, Step(w, s),
                 UNCHANGED <<day, used, billed, unrecorded, rowVars, wText, wDay, wCost>>
          PROVE  TypeOK'
      <4>1. s \in Executing
        BY DEF Executing
      <4> QED
        BY <1>0, <2>0, <3>2, <4>1, StepType DEF TypeOK, rowVars
    <3> QED
      BY <2>3, <3>1, <3>2 DEF CheckCeiling, CheckDaily
  <2>4. ASSUME NEW c \in 1 .. MaxCost, Answered(w, c) PROVE TypeOK'
    <3>1. "answered" \in Executing
      BY DEF Executing
    <3>2. PICK told \in {0, c} :
            /\ wCost' = [wCost EXCEPT ![w] = told]
            /\ unrecorded' = [unrecorded EXCEPT ![User(w)] = @ + c - told]
      BY <2>4 DEF Answered
    <3>3. told \in 0 .. MaxCost /\ c - told \in Nat /\ c \in Nat
      OBVIOUS
    <3>4. wCost' \in [Workers -> 0 .. MaxCost]
      BY <1>0, <3>2, <3>3 DEF TypeOK
    <3>5. unrecorded' \in [Users -> Nat] /\ billed' \in [Users -> Nat]
      BY <1>0, <2>1, <2>4, <3>2, <3>3 DEF TypeOK, Answered
    <3> QED
      BY <1>0, <2>0, <2>4, <3>1, <3>4, <3>5, StepType DEF TypeOK, Answered, rowVars
  <2>5. ASSUME NEW c \in 0 .. MaxCost, CallRetryable(w, c) \/ CallRefused(w, c) PROVE TypeOK'
    <3>1. Release(w) /\ UNCHANGED <<result, tries, day, used>>
      BY <2>5 DEF CallRetryable, CallRefused, EndRetrying, EndFailed
    <3>2. row' \in [AllRuns -> {"absent", "ready", "running", "retrying"} \union Ended]
      BY <1>0, <2>1, <2>5 DEF TypeOK, CallRetryable, CallRefused, EndRetrying, EndFailed, Ended
    <3>3. unrecorded' \in [Users -> Nat] /\ billed' \in [Users -> Nat]
      <4>1. /\ billed' = [billed EXCEPT ![User(w)] = @ + c]
            /\ unrecorded' = [unrecorded EXCEPT ![User(w)] = @ + c]
        BY <2>5 DEF CallRetryable, CallRefused
      <4>2. c \in Nat
        OBVIOUS
      <4> QED
        BY <1>0, <2>1, <4>1, <4>2 DEF TypeOK
    <3> QED
      BY <1>0, <3>1, <3>2, <3>3, ReleaseType DEF TypeOK
  <2>6. CASE RecordUsage(w) \/ RecordFails(w)
    <3>1. "recorded" \in Executing
      BY DEF Executing
    <3>2. Step(w, "recorded") /\ UNCHANGED <<day, rowVars, wText, wDay, billed>>
      BY <2>6 DEF RecordUsage, RecordFails
    <3>3. wCost' = [wCost EXCEPT ![w] = 0] /\ 0 \in 0 .. MaxCost /\ wCost[w] \in Nat
      BY <2>1, <2>6 DEF RecordUsage, RecordFails
    <3>4. wCost' \in [Workers -> 0 .. MaxCost]
      BY <1>0, <3>3 DEF TypeOK
    <3>5. used' \in [Users \X Days -> Nat]
      <4>1. CASE used' = [used EXCEPT ![<<User(w), day>>] = @ + wCost[w]]
        <5>1. <<User(w), day>> \in Users \X Days
          BY <1>0, <2>1 DEF TypeOK
        <5> QED
          BY <1>0, <3>3, <4>1, <5>1 DEF TypeOK
      <4>2. CASE used' = used
        BY <1>0, <4>2 DEF TypeOK
      <4> QED
        BY <2>6, <4>1, <4>2 DEF RecordUsage, RecordFails
    <3>6. unrecorded' \in [Users -> Nat]
      <4>1. CASE unrecorded' = [unrecorded EXCEPT ![User(w)] = @ + wCost[w]]
        BY <1>0, <2>1, <3>3, <4>1 DEF TypeOK
      <4>2. CASE unrecorded' = unrecorded
        BY <1>0, <4>2 DEF TypeOK
      <4> QED
        BY <2>6, <4>1, <4>2 DEF RecordUsage, RecordFails
    <3> QED
      BY <1>0, <2>0, <3>1, <3>2, <3>4, <3>5, <3>6, StepType DEF TypeOK, rowVars
  <2>7. CASE Succeed(w)
    <3>1. row' \in [AllRuns -> {"absent", "ready", "running", "retrying"} \union Ended]
      BY <1>0, <2>1, <2>7 DEF TypeOK, Succeed, Ended
    <3>2. result' \in [AllRuns -> SUBSET Users]
      BY <1>0, <2>1, <2>7 DEF TypeOK, Succeed
    <3> QED
      BY <1>0, <2>7, <3>1, <3>2, ReleaseType DEF TypeOK, Succeed
  <2>8. CASE Interrupted(w)
    <3>1. row' \in [AllRuns -> {"absent", "ready", "running", "retrying"} \union Ended]
      BY <1>0, <2>1, <2>8 DEF TypeOK, Interrupted, Ended
    <3>2. unrecorded' \in [Users -> Nat]
      BY <1>0, <2>1, <2>8 DEF TypeOK, Interrupted
    <3> QED
      BY <1>0, <2>8, <3>1, <3>2, ReleaseType DEF TypeOK, Interrupted
  <2> QED
    BY <1>4, <2>2, <2>3, <2>4, <2>5, <2>6, <2>7, <2>8 DEF Execute
<1>5. CASE Midnight
  BY <1>0, <1>5 DEF TypeOK, Midnight, rowVars, workerVars
<1>6. CASE UNCHANGED vars
  BY <1>0, <1>6 DEF TypeOK, vars
<1> QED
  BY <1>1, <1>2, <1>3, <1>4, <1>5, <1>6 DEF Next, ExecuteSummarize, ExecutePolish

----------------------------------------------------------------------------
(* What a step of a worker does *)

\* The other workers do nothing.
Others(w) ==
  \A x \in Workers \ {w} : UNCHANGED <<pc[x], wRun[x], wText[x], wDay[x], wCost[x]>>

\* The tokens it moves: b are billed, a are added to today's row and n are lost to
\* the ledger.
Charges(w, b, a, n) ==
  /\ b \in Nat /\ a \in 0 .. MaxCost /\ n \in Nat
  /\ billed'[User(w)] = billed[User(w)] + b
  /\ unrecorded'[User(w)] = unrecorded[User(w)] + n
  /\ used'[<<User(w), day>>] = used[<<User(w), day>>] + a
  /\ wCost'[w] = wCost[w] + b - a - n
  /\ \A u \in Users \ {User(w)} : UNCHANGED <<billed[u], unrecorded[u]>>
  /\ \A p \in (Users \X Days) \ {<<User(w), day>>} : UNCHANGED used[p]
  /\ a # 0 => pc[w] = "answered" /\ pc'[w] = "recorded"

\* What the step has checked.
Passes(w) ==
  /\ pc'[w] = "resolved" => wDay'[w] = day
  /\ pc'[w] = "under_ceiling" =>
       /\ pc[w] = "resolved" /\ wDay'[w] = wDay[w]
       /\ ~(HasCeiling /\ MonthTotal(wDay[w]) >= Ceiling)
  /\ pc'[w] = "allowed" =>
       /\ pc[w] = "under_ceiling" /\ wDay'[w] = wDay[w]
       /\ used[<<User(w), wDay[w]>>] < Daily
  /\ pc'[w] = "answered" => pc[w] = "allowed"

\* The worker keeps its run until the execution is over.
Goes(w) ==
  /\ pc[w] # "idle" /\ day' = day
  /\ wDay'[w] \in {wDay[w], day, 1}
  /\ pc'[w] # "idle" => wRun'[w] = wRun[w]
  /\ wCost'[w] # 0 => pc'[w] = "answered"

\* The end of an execution.
LEMMA Released ==
  ASSUME TypeOK, NEW w \in Workers, Release(w)
  PROVE  /\ Others(w) /\ pc'[w] = "idle" /\ wCost'[w] = 0 /\ wDay'[w] = 1
         /\ wText'[w] = {}
  BY DEF TypeOK, Release, Others

\* A step that moves no tokens.
LEMMA ChargesNothing ==
  ASSUME TypeOK, NEW w \in Workers, pc[w] # "idle",
         UNCHANGED <<used, billed, unrecorded>>, wCost'[w] = wCost[w]
  PROVE  Charges(w, 0, 0, 0)
<1>1. User(w) \in Users /\ <<User(w), day>> \in Users \X Days
  BY OfItsRun DEF TypeOK
<1>2. billed[User(w)] \in Nat /\ unrecorded[User(w)] \in Nat /\ used[<<User(w), day>>] \in Nat
      /\ wCost[w] \in 0 .. MaxCost
  BY <1>1 DEF TypeOK
<1> QED
  BY <1>2, LlmAssumption DEF Charges

\* Every step of an execution is of this kind.
LEMMA WorkerSteps ==
  ASSUME IInv, NEW w \in Workers, Execute(w) \/ Interrupted(w)
  PROVE  /\ Others(w) /\ Passes(w) /\ Goes(w)
         /\ \E b, a, n \in Nat : Charges(w, b, a, n)
<1> USE LlmAssumption
<1>0. TypeOK /\ CostWhenAnswered
  BY DEF IInv
<1>1. pc[w] # "idle"
  BY DEF Execute, ResolveInput, CheckCeiling, CheckDaily, Answered, CallRetryable,
         CallRefused, RecordUsage, RecordFails, Succeed, Interrupted
<1>2. /\ User(w) \in Users /\ <<User(w), day>> \in Users \X Days
      /\ billed[User(w)] \in Nat /\ unrecorded[User(w)] \in Nat /\ used[<<User(w), day>>] \in Nat
      /\ wCost[w] \in Nat /\ wCost[w] \in 0 .. MaxCost
  BY <1>0, <1>1, OfItsRun DEF TypeOK
<1>3. ASSUME Release(w), UNCHANGED <<day, used, billed, unrecorded>>, wCost[w] = 0
      PROVE  Others(w) /\ Passes(w) /\ Goes(w) /\ \E b, a, n \in Nat : Charges(w, b, a, n)
  <2>1. Others(w) /\ pc'[w] = "idle" /\ wCost'[w] = 0 /\ wDay'[w] = 1
    BY <1>0, <1>3, Released
  <2>2. Charges(w, 0, 0, 0)
    BY <1>0, <1>1, <1>3, <2>1, ChargesNothing
  <2> QED
    BY <1>1, <1>3, <2>1, <2>2 DEF Passes, Goes
<1>4. CASE ResolveInput(w) /\ ~EndFailed(w)
  <2>1. Others(w) /\ pc'[w] = "resolved" /\ wRun'[w] = wRun[w] /\ wDay'[w] = day /\ wCost'[w] = wCost[w]
    BY <1>0, <1>4 DEF ResolveInput, TypeOK, Step, Others
  <2>2. wCost[w] = 0 /\ UNCHANGED <<day, used, billed, unrecorded>>
    BY <1>0, <1>4 DEF ResolveInput, CostWhenAnswered
  <2>3. Charges(w, 0, 0, 0)
    BY <1>0, <1>1, <2>1, <2>2, ChargesNothing
  <2> QED
    BY <1>1, <2>1, <2>2, <2>3 DEF Passes, Goes
<1>5. CASE CheckCeiling(w) /\ ~EndFailed(w)
  <2>1. /\ Others(w) /\ pc'[w] = "under_ceiling" /\ pc[w] = "resolved"
        /\ wRun'[w] = wRun[w] /\ wDay'[w] = wDay[w] /\ wCost'[w] = wCost[w]
        /\ ~(HasCeiling /\ MonthTotal(wDay[w]) >= Ceiling)
    BY <1>0, <1>5 DEF CheckCeiling, TypeOK, Step, Others
  <2>2. wCost[w] = 0 /\ UNCHANGED <<day, used, billed, unrecorded>>
    BY <1>0, <1>5 DEF CheckCeiling, CostWhenAnswered
  <2>3. Charges(w, 0, 0, 0)
    BY <1>0, <1>1, <2>1, <2>2, ChargesNothing
  <2> QED
    BY <1>1, <2>1, <2>2, <2>3 DEF Passes, Goes
<1>6. CASE CheckDaily(w) /\ ~EndFailed(w)
  <2>1. /\ Others(w) /\ pc'[w] = "allowed" /\ pc[w] = "under_ceiling"
        /\ wRun'[w] = wRun[w] /\ wDay'[w] = wDay[w] /\ wCost'[w] = wCost[w]
        /\ used[<<User(w), wDay[w]>>] < Daily
    BY <1>0, <1>6 DEF CheckDaily, TypeOK, Step, Others
  <2>2. wCost[w] = 0 /\ UNCHANGED <<day, used, billed, unrecorded>>
    BY <1>0, <1>6 DEF CheckDaily, CostWhenAnswered
  <2>3. Charges(w, 0, 0, 0)
    BY <1>0, <1>1, <2>1, <2>2, ChargesNothing
  <2> QED
    BY <1>1, <2>1, <2>2, <2>3 DEF Passes, Goes
<1>7. ASSUME NEW c \in 1 .. MaxCost, Answered(w, c)
      PROVE  Others(w) /\ Passes(w) /\ Goes(w) /\ \E b, a, n \in Nat : Charges(w, b, a, n)
  <2>1. PICK told \in {0, c} :
          /\ wCost' = [wCost EXCEPT ![w] = told]
          /\ unrecorded' = [unrecorded EXCEPT ![User(w)] = @ + c - told]
    BY <1>7 DEF Answered
  <2>2. /\ Others(w) /\ pc'[w] = "answered" /\ pc[w] = "allowed"
        /\ wRun'[w] = wRun[w] /\ wDay'[w] = wDay[w] /\ wCost'[w] = told
    BY <1>0, <1>7, <2>1 DEF Answered, TypeOK, Step, Others
  <2>3. wCost[w] = 0 /\ UNCHANGED <<day, used>>
    BY <1>0, <1>7 DEF Answered, CostWhenAnswered
  <2>4. c \in Nat /\ told \in Nat /\ c - told \in Nat
    OBVIOUS
  <2>5. Charges(w, c, 0, c - told)
    <3>1. /\ billed'[User(w)] = billed[User(w)] + c
          /\ \A u \in Users \ {User(w)} : UNCHANGED billed[u]
      BY <1>0, <1>2, <1>7 DEF Answered, TypeOK
    <3>2. /\ unrecorded'[User(w)] = unrecorded[User(w)] + (c - told)
          /\ \A u \in Users \ {User(w)} : UNCHANGED unrecorded[u]
      BY <1>0, <1>2, <2>1, <2>4 DEF TypeOK
    <3>3. wCost'[w] = wCost[w] + c - 0 - (c - told)
      BY <2>2, <2>3, <2>4
    <3>4. 0 \in 0 .. MaxCost
      OBVIOUS
    <3> QED
      BY <1>2, <2>3, <2>4, <3>1, <3>2, <3>3, <3>4 DEF Charges
  <2> QED
    BY <1>1, <2>2, <2>3, <2>4, <2>5 DEF Passes, Goes
<1>8. ASSUME NEW c \in 0 .. MaxCost, CallRetryable(w, c) \/ CallRefused(w, c)
      PROVE  Others(w) /\ Passes(w) /\ Goes(w) /\ \E b, a, n \in Nat : Charges(w, b, a, n)
  <2>1. /\ Release(w) /\ pc[w] = "allowed" /\ UNCHANGED <<day, used>>
        /\ billed' = [billed EXCEPT ![User(w)] = @ + c]
        /\ unrecorded' = [unrecorded EXCEPT ![User(w)] = @ + c]
    BY <1>8 DEF CallRetryable, CallRefused, EndRetrying, EndFailed
  <2>2. Others(w) /\ pc'[w] = "idle" /\ wCost'[w] = 0 /\ wDay'[w] = 1
    BY <1>0, <2>1, Released
  <2>3. wCost[w] = 0
    BY <1>0, <2>1 DEF CostWhenAnswered
  <2>4. c \in Nat
    OBVIOUS
  <2>5. Charges(w, c, 0, c)
    <3>1. /\ billed'[User(w)] = billed[User(w)] + c /\ unrecorded'[User(w)] = unrecorded[User(w)] + c
          /\ \A u \in Users \ {User(w)} : UNCHANGED <<billed[u], unrecorded[u]>>
      BY <1>0, <1>2, <2>1 DEF TypeOK
    <3>2. wCost'[w] = wCost[w] + c - 0 - c /\ 0 \in 0 .. MaxCost
      BY <2>2, <2>3, <2>4
    <3> QED
      BY <1>2, <2>1, <2>4, <3>1, <3>2 DEF Charges
  <2> QED
    BY <1>1, <2>1, <2>2, <2>4, <2>5 DEF Passes, Goes
<1>9. CASE RecordUsage(w)
  <2>1. /\ Others(w) /\ pc'[w] = "recorded" /\ pc[w] = "answered"
        /\ wRun'[w] = wRun[w] /\ wDay'[w] = wDay[w] /\ wCost'[w] = 0
        /\ UNCHANGED <<day, billed, unrecorded>>
    BY <1>0, <1>9 DEF RecordUsage, TypeOK, Step, Others
  <2>2. Charges(w, 0, wCost[w], 0)
    <3>1. /\ used'[<<User(w), day>>] = used[<<User(w), day>>] + wCost[w]
          /\ \A p \in (Users \X Days) \ {<<User(w), day>>} : UNCHANGED used[p]
      BY <1>0, <1>2, <1>9 DEF RecordUsage, TypeOK
    <3>2. wCost'[w] = wCost[w] + 0 - wCost[w] - 0
      BY <1>2, <2>1
    <3> QED
      BY <1>2, <2>1, <3>1, <3>2 DEF Charges
  <2> QED
    BY <1>1, <1>2, <2>1, <2>2 DEF Passes, Goes
<1>10. CASE RecordFails(w)
  <2>1. /\ Others(w) /\ pc'[w] = "recorded" /\ pc[w] = "answered"
        /\ wRun'[w] = wRun[w] /\ wDay'[w] = wDay[w] /\ wCost'[w] = 0
        /\ UNCHANGED <<day, billed, used>>
    BY <1>0, <1>10 DEF RecordFails, TypeOK, Step, Others
  <2>2. Charges(w, 0, 0, wCost[w])
    <3>1. /\ unrecorded'[User(w)] = unrecorded[User(w)] + wCost[w]
          /\ \A u \in Users \ {User(w)} : UNCHANGED unrecorded[u]
      BY <1>0, <1>2, <1>10 DEF RecordFails, TypeOK
    <3>2. wCost'[w] = wCost[w] + 0 - 0 - wCost[w] /\ 0 \in 0 .. MaxCost
      BY <1>2, <2>1
    <3> QED
      BY <1>2, <2>1, <3>1, <3>2 DEF Charges
  <2> QED
    BY <1>1, <1>2, <2>1, <2>2 DEF Passes, Goes
<1>11. CASE Interrupted(w)
  <2>1. /\ Others(w) /\ pc'[w] = "idle" /\ wCost'[w] = 0 /\ wDay'[w] = 1
        /\ UNCHANGED <<day, billed, used>>
    BY <1>0, <1>11, Released DEF Interrupted
  <2>2. Charges(w, 0, 0, wCost[w])
    <3>1. /\ unrecorded'[User(w)] = unrecorded[User(w)] + wCost[w]
          /\ \A u \in Users \ {User(w)} : UNCHANGED unrecorded[u]
      BY <1>0, <1>2, <1>11 DEF Interrupted, TypeOK
    <3>2. wCost'[w] = wCost[w] + 0 - 0 - wCost[w] /\ 0 \in 0 .. MaxCost
      BY <1>2, <2>1
    <3> QED
      BY <1>2, <2>1, <3>1, <3>2 DEF Charges
  <2> QED
    BY <1>1, <1>2, <2>1, <2>2 DEF Passes, Goes
<1>12. CASE Succeed(w)
  BY <1>0, <1>3, <1>12 DEF Succeed, CostWhenAnswered
<1>13. CASE (ResolveInput(w) \/ CheckCeiling(w) \/ CheckDaily(w)) /\ EndFailed(w)
  <2>1. wCost[w] = 0
    BY <1>0, <1>13 DEF CostWhenAnswered, ResolveInput, CheckCeiling, CheckDaily
  <2>2. Release(w) /\ UNCHANGED <<day, used, billed, unrecorded>>
    BY <1>13 DEF EndFailed, ResolveInput, CheckCeiling, CheckDaily
  <2> QED
    BY <1>3, <2>1, <2>2
<1> QED
  BY <1>4, <1>5, <1>6, <1>7, <1>8, <1>9, <1>10, <1>11, <1>12, <1>13 DEF Execute

\* A worker takes a run; it holds no answer.
Takes(w) ==
  /\ Others(w) /\ pc[w] = "idle" /\ pc'[w] = "claimed" /\ wCost[w] = 0
  /\ UNCHANGED <<day, used, wText, wDay, wCost, billed, unrecorded>>

\* Only rows of runs change.
RowsOnly == UNCHANGED <<day, used, workerVars, billed, unrecorded>>

\* The kinds of steps.
LEMMA StepKinds ==
  ASSUME IInv, [Next]_vars
  PROVE  \/ RowsOnly \/ Midnight
         \/ \E w \in Workers : Takes(w) \/ Execute(w) \/ Interrupted(w)
<1>0. TypeOK /\ CostWhenAnswered
  BY DEF IInv
<1>1. ASSUME NEW p \in Sources, SourceEnds(p) PROVE RowsOnly
  BY <1>1 DEF SourceEnds, RowsOnly
<1>2. ASSUME NEW r \in Runs, Materialize(r) \/ GiveUp(r) PROVE RowsOnly
  BY <1>2 DEF Materialize, GiveUp, RowsOnly
<1>3. ASSUME NEW w \in Workers, NEW r \in Runs, Claim(w, r) PROVE RowsOnly \/ Takes(w)
  <2>1. CASE UNCHANGED <<pc, wRun>>
    BY <1>3, <2>1 DEF Claim, RowsOnly, workerVars
  <2>2. CASE pc' = [pc EXCEPT ![w] = "claimed"] /\ wRun' = [wRun EXCEPT ![w] = r]
    <3>1. Others(w) /\ pc'[w] = "claimed"
      BY <1>0, <1>3, <2>2 DEF TypeOK, Claim, Others
    <3> QED
      BY <1>0, <1>3, <3>1 DEF Claim, Takes, CostWhenAnswered
  <2> QED
    BY <1>3, <2>1, <2>2 DEF Claim
<1>4. CASE UNCHANGED vars
  BY <1>4 DEF vars, RowsOnly, workerVars
<1> QED
  BY <1>1, <1>2, <1>3, <1>4 DEF Next, ExecuteSummarize, ExecutePolish

----------------------------------------------------------------------------
(* Clocks and costs *)

\* Answers are held where they are recorded, and the clocks keep step.
LEMMA ClockInv ==
  ASSUME IInv, [Next]_vars
  PROVE  CostWhenAnswered' /\ DaysPass'
<1> USE LlmAssumption
<1>0. TypeOK /\ CostWhenAnswered /\ DaysPass /\ 1 <= day
  BY DEF IInv, TypeOK, Days
<1>1. CASE RowsOnly
  BY <1>0, <1>1 DEF RowsOnly, workerVars, CostWhenAnswered, DaysPass
<1>2. CASE Midnight
  <2>1. day' = day + 1 /\ UNCHANGED <<used, pc, wCost, wDay>>
    BY <1>2 DEF Midnight, workerVars
  <2>2. day \in Nat /\ \A w \in Workers : wDay[w] \in Nat
    BY <1>0 DEF TypeOK, Days
  <2>3. \A w \in Workers : wDay'[w] <= day'
    BY <1>0, <2>1, <2>2 DEF DaysPass
  <2>4. \A u \in Users, d \in Days : d > day' => used'[<<u, d>>] = 0
    BY <1>0, <2>1, <2>2 DEF DaysPass, Days
  <2> QED
    BY <1>0, <2>1, <2>3, <2>4 DEF CostWhenAnswered, DaysPass
<1>3. ASSUME NEW w \in Workers, Takes(w) PROVE CostWhenAnswered' /\ DaysPass'
  BY <1>0, <1>3 DEF Takes, Others, CostWhenAnswered, DaysPass
<1>4. ASSUME NEW w \in Workers, Execute(w) \/ Interrupted(w) PROVE CostWhenAnswered' /\ DaysPass'
  <2>1. Others(w) /\ Goes(w)
    BY <1>4, WorkerSteps
  <2>2. PICK b \in Nat, a \in Nat, n \in Nat : Charges(w, b, a, n)
    BY <1>4, WorkerSteps
  <2>3. \A x \in Workers : wCost'[x] # 0 => pc'[x] = "answered"
    BY <1>0, <2>1 DEF Others, Goes, CostWhenAnswered
  <2>4. \A x \in Workers : wDay'[x] <= day'
    <3>1. day' = day /\ day \in Nat /\ wDay'[w] \in {wDay[w], day, 1}
      BY <1>0, <2>1 DEF Goes, TypeOK, Days
    <3>2. wDay'[w] <= day
      BY <1>0, <3>1 DEF DaysPass
    <3> QED
      BY <1>0, <2>1, <3>1, <3>2 DEF Others, DaysPass
  <2>5. ASSUME NEW u \in Users, NEW d \in Days, d > day PROVE used'[<<u, d>>] = 0
    <3>1. d # day
      BY <1>0, <2>5 DEF TypeOK, Days
    <3>2. <<u, d>> \in (Users \X Days) \ {<<User(w), day>>}
      BY <3>1
    <3> QED
      BY <1>0, <2>2, <2>5, <3>2 DEF Charges, DaysPass
  <2> QED
    BY <2>1, <2>3, <2>4, <2>5 DEF Goes, CostWhenAnswered, DaysPass
<1> QED
  BY <1>1, <1>2, <1>3, <1>4, StepKinds

----------------------------------------------------------------------------
(* Whose data *)

\* No step mixes the data of two users.
LEMMA OwnInv ==
  ASSUME IInv, [Next]_vars
  PROVE  OwnText' /\ OwnDataOnly'
<1> USE LlmAssumption
<1>0. TypeOK /\ OwnText /\ OwnDataOnly
  BY DEF IInv
<1>1. ASSUME UNCHANGED workerVars PROVE OwnText'
  BY <1>0, <1>1 DEF OwnText, workerVars, User
<1>2. ASSUME UNCHANGED result PROVE OwnDataOnly'
  BY <1>0, <1>2 DEF OwnDataOnly
<1>3. ASSUME NEW w \in Workers, Release(w) PROVE OwnText'
  <2>1. Others(w) /\ wText'[w] = {}
    BY <1>0, <1>3, Released
  <2> QED
    BY <1>0, <2>1 DEF OwnText, Others, User
<1>4. ASSUME NEW w \in Workers, pc[w] # "idle", NEW s \in Executing, Step(w, s), UNCHANGED wText
      PROVE  OwnText'
  <2>1. pc'[w] # "idle" /\ wRun' = wRun /\ \A x \in Workers \ {w} : pc'[x] = pc[x]
    BY <1>0, <1>4 DEF TypeOK, Step, Executing
  <2> QED
    BY <1>0, <1>4, <2>1 DEF OwnText, User
<1>5. ASSUME NEW p \in Sources, SourceEnds(p) PROVE OwnText' /\ OwnDataOnly'
  <2>1. OwnDataOnly'
    BY <1>0, <1>5 DEF SourceEnds, OwnDataOnly, TypeOK
  <2> QED
    BY <1>1, <1>5, <2>1 DEF SourceEnds
<1>6. ASSUME NEW r \in Runs, Materialize(r) \/ GiveUp(r) PROVE OwnText' /\ OwnDataOnly'
  BY <1>1, <1>2, <1>6 DEF Materialize, GiveUp
<1>7. ASSUME NEW w \in Workers, NEW r \in Runs, Claim(w, r) PROVE OwnText' /\ OwnDataOnly'
  <2>1. OwnDataOnly'
    BY <1>2, <1>7 DEF Claim
  <2>2. wText[w] = {} /\ UNCHANGED wText
    BY <1>0, <1>7 DEF Claim, OwnText
  <2>3. \A x \in Workers \ {w} : pc'[x] = pc[x] /\ wRun'[x] = wRun[x]
    BY <1>0, <1>7 DEF Claim, TypeOK
  <2> QED
    BY <1>0, <2>1, <2>2, <2>3 DEF OwnText, User
<1>8. ASSUME NEW w \in Workers, ResolveInput(w) PROVE OwnText' /\ OwnDataOnly'
  <2>1. CASE EndFailed(w)
    BY <1>2, <1>3, <2>1 DEF EndFailed
  <2>2. CASE ~EndFailed(w)
    <3> DEFINE r == wRun[w]
               text == IF Params[r] = "text" THEN {UserOf[r]} ELSE ReadUpstream(FromRun(r), UserOf[r])
    <3>1. /\ text # {} /\ Step(w, "resolved") /\ wText' = [wText EXCEPT ![w] = text]
          /\ UNCHANGED rowVars /\ pc[w] = "claimed"
      BY <1>8, <2>2 DEF ResolveInput
    <3>2. text \subseteq {UserOf[r]}
      BY <1>0, <3>1, OwnInput, OfItsRun
    <3> HIDE DEF text
    <3>3. /\ wText'[w] = {UserOf[wRun[w]]} /\ pc'[w] = "resolved" /\ wRun' = wRun
          /\ \A x \in Workers \ {w} : pc'[x] = pc[x] /\ wText'[x] = wText[x]
      BY <1>0, <3>1, <3>2 DEF TypeOK, Step
    <3>4. OwnText'
      BY <1>0, <3>3 DEF OwnText, User
    <3> QED
      BY <1>2, <3>1, <3>4 DEF rowVars
  <2> QED
    BY <2>1, <2>2
<1>9. ASSUME NEW w \in Workers, CheckCeiling(w) \/ CheckDaily(w) PROVE OwnText' /\ OwnDataOnly'
  <2>1. CASE EndFailed(w)
    BY <1>2, <1>3, <2>1 DEF EndFailed
  <2>2. CASE ~EndFailed(w)
    <3>1. /\ Step(w, "under_ceiling") \/ Step(w, "allowed")
          /\ UNCHANGED rowVars /\ UNCHANGED wText /\ pc[w] # "idle"
      BY <1>9, <2>2 DEF CheckCeiling, CheckDaily
    <3>2. {"under_ceiling", "allowed"} \subseteq Executing
      BY DEF Executing
    <3> QED
      BY <1>2, <1>4, <3>1, <3>2 DEF rowVars
  <2> QED
    BY <2>1, <2>2
<1>10. ASSUME NEW w \in Workers, NEW c \in 0 .. MaxCost,
              Answered(w, c) \/ CallRetryable(w, c) \/ CallRefused(w, c)
       PROVE  OwnText' /\ OwnDataOnly'
  <2>1. CASE Answered(w, c)
    <3>1. "answered" \in Executing
      BY DEF Executing
    <3> QED
      BY <1>2, <1>4, <2>1, <3>1 DEF Answered, rowVars
  <2>2. CASE CallRetryable(w, c) \/ CallRefused(w, c)
    BY <1>2, <1>3, <2>2 DEF CallRetryable, CallRefused, EndRetrying, EndFailed
  <2> QED
    BY <1>10, <2>1, <2>2
<1>11. ASSUME NEW w \in Workers, RecordUsage(w) \/ RecordFails(w) PROVE OwnText' /\ OwnDataOnly'
  <2>1. "recorded" \in Executing
    BY DEF Executing
  <2>2. Step(w, "recorded") /\ pc[w] # "idle" /\ UNCHANGED wText /\ UNCHANGED result
    BY <1>11 DEF RecordUsage, RecordFails, rowVars
  <2> QED
    BY <1>2, <1>4, <2>1, <2>2
<1>12. ASSUME NEW w \in Workers, Succeed(w) PROVE OwnText' /\ OwnDataOnly'
  <2>1. wText[w] \subseteq {UserOf[wRun[w]]}
    BY <1>0, <1>12 DEF Succeed, OwnText, User
  <2>2. OwnDataOnly'
    BY <1>0, <1>12, <2>1 DEF Succeed, OwnDataOnly, TypeOK
  <2> QED
    BY <1>3, <1>12, <2>2 DEF Succeed
<1>13. ASSUME NEW w \in Workers, Interrupted(w) PROVE OwnText' /\ OwnDataOnly'
  BY <1>2, <1>3, <1>13 DEF Interrupted
<1>14. CASE Midnight
  BY <1>1, <1>2, <1>14 DEF Midnight, rowVars
<1>15. CASE UNCHANGED vars
  BY <1>1, <1>2, <1>15 DEF vars, workerVars
<1>16. \A c \in 1 .. MaxCost : c \in 0 .. MaxCost
  OBVIOUS
<1> QED
  BY <1>5, <1>6, <1>7, <1>8, <1>9, <1>10, <1>11, <1>12, <1>13, <1>14, <1>15, <1>16
     DEF Next, ExecuteSummarize, ExecutePolish, Execute

----------------------------------------------------------------------------
(* The daily budget *)

\* What one call of each of the workers A can cost.
Room(A) == MaxCost * Cardinality(A)

\* It is at most Slack, and less for fewer workers.
LEMMA Rooms ==
  ASSUME NEW A \in SUBSET Workers
  PROVE  /\ Room(A) \in Nat /\ Slack \in Nat /\ Room(A) <= Slack
         /\ \A B \in SUBSET A : Room(B) \in Nat /\ Room(B) <= Room(A)
         /\ \A w \in A, B \in SUBSET A : w \notin B => Room(B) + MaxCost <= Room(A)
<1> USE LlmAssumption
<1>1. IsFiniteSet(Workers) /\ Cardinality(Workers) \in Nat
  BY FiniteSums
<1>2. IsFiniteSet(A) /\ Cardinality(A) \in Nat /\ Cardinality(A) <= Cardinality(Workers)
  BY <1>1, FS_Subset, FS_CardinalityType
<1>3. Room(A) \in Nat /\ Slack \in Nat /\ Room(A) <= Slack
  BY <1>1, <1>2, Products DEF Room, Slack
<1>4. ASSUME NEW B \in SUBSET A PROVE Room(B) \in Nat /\ Room(B) <= Room(A)
  <2>1. Cardinality(B) \in Nat /\ Cardinality(B) <= Cardinality(A)
    BY <1>2, FS_Subset, FS_CardinalityType
  <2> QED
    BY <1>2, <2>1, Products DEF Room
<1>5. ASSUME NEW w \in A, NEW B \in SUBSET A, w \notin B PROVE Room(B) + MaxCost <= Room(A)
  <2>1. IsFiniteSet(A \ {w}) /\ Cardinality(A \ {w}) = Cardinality(A) - 1
    BY <1>2, FS_RemoveElement
  <2>2. Cardinality(A \ {w}) \in Nat
    BY <2>1, FS_CardinalityType
  <2>3. B \in SUBSET (A \ {w})
    BY <1>5
  <2>4. Cardinality(B) \in Nat /\ Cardinality(B) + 1 <= Cardinality(A)
    BY <1>2, <2>1, <2>2, <2>3, FS_Subset, FS_CardinalityType
  <2>5. MaxCost * (Cardinality(B) + 1) <= MaxCost * Cardinality(A)
    BY <1>2, <2>4, Products
  <2>6. MaxCost * (Cardinality(B) + 1) = MaxCost * Cardinality(B) + MaxCost
    BY <2>4, Products
  <2> QED
    BY <2>5, <2>6 DEF Room
<1> QED
  BY <1>3, <1>4, <1>5

\* Today's bound, in these terms.
LEMMA DailyRoom == DailyCovered <=> \A u \in Users : used[<<u, day>>] + Room(Armed(u)) < Daily + Slack
  BY DEF DailyCovered, Room

\* The bound on today's usage survives every step.
LEMMA DailyInv ==
  ASSUME IInv, [Next]_vars
  PROVE  DailyCovered' /\ DailyOvershoot'
<1> USE LlmAssumption
<1>0. TypeOK /\ DaysPass /\ DailyOvershoot /\ day \in Days /\ day' \in Days
  BY TypeInv DEF IInv, TypeOK
<1>1. \A u \in Users : used[<<u, day>>] + Room(Armed(u)) < Daily + Slack
  BY DailyRoom DEF IInv
<1>2. \A u \in Users : Armed(u) \in SUBSET Workers /\ Armed(u)' \in SUBSET Workers
  BY DEF Armed
<1>3. \A u \in Users, d \in Days : <<u, d>> \in Users \X Days /\ used[<<u, d>>] \in Nat /\ used'[<<u, d>>] \in Nat
  BY TypeInv DEF IInv, TypeOK
<1>4. \A u \in Users : /\ Room(Armed(u)) \in Nat /\ Room(Armed(u)') \in Nat /\ Slack \in Nat
                       /\ Room(Armed(u)') <= Slack
  BY <1>2, Rooms
<1>5. SUFFICES /\ \A u \in Users : used'[<<u, day'>>] + Room(Armed(u)') < Daily + Slack
               /\ \A u \in Users, d \in Days \ {day'} : used'[<<u, d>>] = used[<<u, d>>]
  <2>1. DailyCovered'
    BY <1>5 DEF DailyCovered, Room, Slack
  <2>2. ASSUME NEW u \in Users, NEW d \in Days PROVE used'[<<u, d>>] < Daily + Slack
    <3>1. CASE d = day'
      BY <1>3, <1>4, <1>5, <3>1
    <3>2. CASE d # day'
      BY <1>0, <1>5, <3>2 DEF DailyOvershoot
    <3> QED
      BY <3>1, <3>2
  <2>3. DailyOvershoot'
    BY <2>2 DEF DailyOvershoot, Slack
  <2> QED
    BY <2>1, <2>3
<1>6. ASSUME NEW u \in Users, Armed(u)' \subseteq Armed(u), used'[<<u, day>>] = used[<<u, day>>]
      PROVE  used'[<<u, day>>] + Room(Armed(u)') < Daily + Slack
  <2>1. Room(Armed(u)') <= Room(Armed(u))
    BY <1>2, <1>6, Rooms
  <2> QED
    BY <1>0, <1>1, <1>3, <1>4, <1>6, <2>1
<1>7. CASE RowsOnly
  <2>1. \A u \in Users : Armed(u)' = Armed(u)
    BY <1>7 DEF RowsOnly, workerVars, Armed, User
  <2> QED
    BY <1>6, <1>7, <2>1 DEF RowsOnly
<1>8. CASE Midnight
  <2>1. day' # day /\ day' > day /\ used' = used
    BY <1>0, <1>8 DEF Midnight, Days
  <2>2. \A u \in Users : used'[<<u, day'>>] = 0
    BY <1>0, <2>1 DEF DaysPass
  <2>3. ASSUME NEW u \in Users PROVE used'[<<u, day'>>] + Room(Armed(u)') < Daily + Slack
    <3>1. Room(Armed(u)') \in Nat /\ Room(Armed(u)') <= Slack /\ Slack \in Nat
      BY <1>4
    <3>2. used'[<<u, day'>>] = 0
      BY <2>2
    <3> QED
      BY <3>1, <3>2
  <2> QED
    BY <2>1, <2>3
<1>9. ASSUME NEW w \in Workers, Takes(w)
      PROVE  /\ \A u \in Users : used'[<<u, day'>>] + Room(Armed(u)') < Daily + Slack
             /\ \A u \in Users, d \in Days \ {day'} : used'[<<u, d>>] = used[<<u, d>>]
  <2>1. \A u \in Users : Armed(u)' \subseteq Armed(u)
    BY <1>9 DEF Takes, Others, Armed, User
  <2> QED
    BY <1>6, <1>9, <2>1 DEF Takes
<1>10. ASSUME NEW w \in Workers, Execute(w) \/ Interrupted(w)
       PROVE  /\ \A u \in Users : used'[<<u, day'>>] + Room(Armed(u)') < Daily + Slack
              /\ \A u \in Users, d \in Days \ {day'} : used'[<<u, d>>] = used[<<u, d>>]
  <2>1. Others(w) /\ Passes(w) /\ Goes(w)
    BY <1>10, WorkerSteps
  <2>2. PICK b \in Nat, a \in Nat, n \in Nat : Charges(w, b, a, n)
    BY <1>10, WorkerSteps
  <2>3. day' = day /\ User(w) \in Users
    BY <1>0, <2>1, OfItsRun DEF Goes
  <2>4. ASSUME NEW u \in Users, NEW d \in Days, u # User(w) \/ d # day
        PROVE  used'[<<u, d>>] = used[<<u, d>>]
    <3>1. <<u, d>> \in (Users \X Days) \ {<<User(w), day>>}
      BY <2>4
    <3> QED
      BY <2>2, <3>1 DEF Charges
  <2>5. \A u \in Users : Armed(u)' \ {w} \subseteq Armed(u)
    BY <2>1, <2>3 DEF Others, Armed, User
  <2>6. ASSUME NEW u \in Users PROVE used'[<<u, day>>] + Room(Armed(u)') < Daily + Slack
    <3>1. CASE u = User(w) /\ a # 0
      <4>1. pc[w] = "answered" /\ pc'[w] = "recorded" /\ a <= MaxCost
        BY <2>2, <3>1 DEF Charges
      <4>2. w \in Armed(u) /\ w \notin Armed(u)'
        BY <3>1, <4>1 DEF Armed
      <4>3. Room(Armed(u)') + MaxCost <= Room(Armed(u))
        BY <1>2, <2>5, <4>2, Rooms
      <4>4. used'[<<u, day>>] = used[<<u, day>>] + a
        BY <2>2, <3>1 DEF Charges
      <4> QED
        BY <1>0, <1>1, <1>3, <1>4, <4>1, <4>3, <4>4
    <3>2. CASE u # User(w) \/ a = 0
      <4>1. used'[<<u, day>>] = used[<<u, day>>]
        BY <1>0, <1>3, <2>2, <2>4, <3>2 DEF Charges
      <4>2. CASE Armed(u)' \subseteq Armed(u)
        BY <1>6, <4>1, <4>2
      <4>3. CASE ~(Armed(u)' \subseteq Armed(u))
        <5>1. w \in Armed(u)' /\ w \notin Armed(u)
          BY <2>5, <4>3
        <5>2. pc'[w] # "idle" /\ u = User(w)
          BY <2>1, <5>1 DEF Armed, User, Goes
        <5>3. pc'[w] = "allowed" /\ wDay[w] = day /\ pc[w] = "under_ceiling"
          BY <2>1, <2>3, <5>1, <5>2 DEF Armed, Passes, Goes
        <5>4. used[<<u, day>>] < Daily
          BY <2>1, <5>2, <5>3 DEF Passes
        <5> QED
          BY <1>0, <1>3, <1>4, <4>1, <5>4
      <4> QED
        BY <4>2, <4>3
    <3> QED
      BY <3>1, <3>2
  <2> QED
    BY <2>3, <2>4, <2>6
<1> QED
  BY <1>7, <1>8, <1>9, <1>10, StepKinds

----------------------------------------------------------------------------
(* The ceiling *)

\* The rows of a month are summed by every check made in it.
LEMMA MonthRows ==
  ASSUME TypeOK, NEW d \in Days
  PROVE  /\ IsFiniteSet(Users \X Month(d)) /\ Month(d) \subseteq Days
         /\ \A p \in Users \X Month(d) : p \in Users \X Days /\ used[p] \in Nat
         /\ Total(used, Users \X Month(d)) \in Nat
         /\ MonthTotal(d) \in Nat /\ Total(used, Users \X Month(d)) <= MonthTotal(d)
<1> USE LlmAssumption
<1> DEFINE Since == {e \in Days : e >= MonthStart[d]}
<1>1. Month(d) \in SUBSET Days /\ Since \in SUBSET Days
  BY DEF Month
<1>2. IsFiniteSet(Users \X Month(d)) /\ IsFiniteSet(Users \X Since)
  BY <1>1, FiniteSums
<1>3. \A p \in Users \X Days : used[p] \in Nat
  BY DEF TypeOK
<1>4. \A p \in Users \X Month(d) : p \in Users \X Days
  BY <1>1
<1>5. \A p \in Users \X Since : p \in Users \X Days
  BY <1>1
<1>6. Month(d) \subseteq Since
  <2>1. ASSUME NEW e \in Month(d) PROVE e \in Since
    <3>1. e \in Days /\ MonthStart[e] = MonthStart[d] /\ MonthStart[e] <= e
      BY DEF Month
    <3> QED
      BY <3>1 DEF Days
  <2> QED
    BY <2>1
<1>7. Users \X Month(d) \in SUBSET (Users \X Since)
  BY <1>6
<1> HIDE DEF Since
<1>8. Total(used, Users \X Month(d)) \in Nat
  BY <1>2, <1>3, <1>4, TokensFinite
<1>9. Total(used, Users \X Since) \in Nat
  BY <1>2, <1>3, <1>5, TokensFinite
<1>10. Total(used, Users \X Month(d)) <= Total(used, Users \X Since)
  BY <1>2, <1>3, <1>5, <1>7, TotalSubset
<1> QED
  BY <1>1, <1>2, <1>3, <1>4, <1>8, <1>9, <1>10 DEF MonthTotal, Since

\* The bound on this month's usage survives every step.
LEMMA MonthInv ==
  ASSUME IInv, [Next]_vars
  PROVE  MonthCovered' /\ CeilingOvershoot'
<1> USE LlmAssumption
<1> DEFINE Sum(d) == Total(used, Users \X Month(d))
           SumAfter(d) == Total(used', Users \X Month(d))
<1>0. TypeOK /\ TypeOK' /\ DaysPass /\ day \in Days /\ day' \in Days
  BY TypeInv DEF IInv, TypeOK
<1> SUFFICES ASSUME HasCeiling PROVE MonthCovered' /\ CeilingOvershoot'
  BY DEF MonthCovered, CeilingOvershoot
<1>1. Sum(day) + Room(MonthArmed) < Ceiling + Slack
  BY DEF IInv, MonthCovered, Room
<1>2. \A d \in Days : Sum(d) < Ceiling + Slack
  BY DEF IInv, CeilingOvershoot, Month
<1>3. MonthArmed \in SUBSET Workers /\ MonthArmed' \in SUBSET Workers
  BY DEF MonthArmed
<1>4. /\ Room(MonthArmed) \in Nat /\ Room(MonthArmed') \in Nat /\ Slack \in Nat
      /\ Room(MonthArmed') <= Slack
  BY <1>3, Rooms
<1>5. \A d \in Days : Sum(d) \in Nat /\ SumAfter(d) \in Nat
  <2>1. \A d \in Days : Sum(d) \in Nat
    BY <1>0, MonthRows
  <2>2. ASSUME NEW d \in Days PROVE SumAfter(d) \in Nat
    <3>1. IsFiniteSet(Users \X Month(d)) /\ \A p \in Users \X Month(d) : p \in Users \X Days
      BY <1>0, MonthRows
    <3>2. \A p \in Users \X Month(d) : used'[p] \in Nat
      BY <1>0, <3>1 DEF TypeOK
    <3> QED
      BY <3>1, <3>2, TokensFinite
  <2> QED
    BY <2>1, <2>2
<1>6. SUFFICES /\ SumAfter(day') + Room(MonthArmed') < Ceiling + Slack
               /\ \A d \in Days : MonthStart[d] # MonthStart[day'] => SumAfter(d) = Sum(d)
  <2>1. MonthCovered'
    BY <1>6 DEF MonthCovered, Room, Slack, Month
  <2>2. ASSUME NEW d \in Days PROVE SumAfter(d) < Ceiling + Slack
    <3>1. CASE MonthStart[d] = MonthStart[day']
      <4>1. Month(d) = Month(day')
        BY <3>1 DEF Month
      <4>2. SumAfter(d) = SumAfter(day')
        BY <4>1
      <4>3. SumAfter(day') \in Nat
        BY <1>0, <1>5
      <4> HIDE DEF SumAfter
      <4> QED
        BY <1>4, <1>6, <4>2, <4>3
    <3>2. CASE MonthStart[d] # MonthStart[day']
      BY <1>2, <1>6, <3>2
    <3> QED
      BY <3>1, <3>2
  <2>3. CeilingOvershoot'
    BY <2>2 DEF CeilingOvershoot, Slack, Month
  <2> QED
    BY <2>1, <2>3
<1>7. ASSUME day' = day, used' = used, MonthArmed' \subseteq MonthArmed
      PROVE  /\ SumAfter(day') + Room(MonthArmed') < Ceiling + Slack
             /\ \A d \in Days : MonthStart[d] # MonthStart[day'] => SumAfter(d) = Sum(d)
  <2>1. Room(MonthArmed') <= Room(MonthArmed)
    BY <1>3, <1>7, Rooms
  <2>2. SumAfter(day') = Sum(day)
    BY <1>7
  <2>3. SumAfter(day') + Room(MonthArmed') < Ceiling + Slack
    BY <1>0, <1>1, <1>4, <1>5, <2>1, <2>2
  <2> QED
    BY <1>7, <2>3
<1>8. CASE RowsOnly
  <2>1. MonthArmed' = MonthArmed
    BY <1>8 DEF RowsOnly, workerVars, MonthArmed
  <2> QED
    BY <1>7, <1>8, <2>1 DEF RowsOnly
<1>9. CASE Midnight
  <2>1. /\ day' = day + 1 /\ used' = used /\ UNCHANGED <<pc, wDay>>
        /\ day \in Nat
    BY <1>0, <1>9 DEF Midnight, workerVars, Days
  <2>2. \A d \in Days : SumAfter(d) = Sum(d)
    BY <2>1
  <2>3. SumAfter(day') + Room(MonthArmed') < Ceiling + Slack
    <3>1. CASE MonthStart[day'] = MonthStart[day]
      <4>1. MonthArmed' = MonthArmed
        BY <2>1, <3>1 DEF MonthArmed
      <4>2. Month(day') = Month(day)
        BY <3>1 DEF Month
      <4> QED
        BY <1>1, <2>1, <4>1, <4>2
    <3>2. CASE MonthStart[day'] # MonthStart[day]
      <4>1. ASSUME NEW p \in Users \X Month(day') PROVE used[p] = 0
        <5>1. p[1] \in Users /\ p[2] \in Days /\ MonthStart[p[2]] = MonthStart[day'] /\ p = <<p[1], p[2]>>
          BY DEF Month
        <5>2. MonthStart[day] <= MonthStart[day']
          BY <1>0, <2>1
        <5>3. ~(p[2] <= day)
          <6> SUFFICES ASSUME p[2] <= day PROVE FALSE
            OBVIOUS
          <6>1. MonthStart[p[2]] <= MonthStart[day]
            BY <1>0, <5>1
          <6>2. MonthStart[day] \in Int /\ MonthStart[day'] \in Int
            BY <1>0 DEF Days
          <6> QED
            BY <3>2, <5>1, <5>2, <6>1, <6>2
        <5>4. p[2] > day
          BY <2>1, <5>1, <5>3 DEF Days
        <5> QED
          BY <1>0, <5>1, <5>4 DEF DaysPass
      <4>2. Sum(day') = 0
        BY <4>1, TotalZero
      <4>3. SumAfter(day') = 0
        BY <1>0, <2>2, <4>2
      <4> HIDE DEF SumAfter
      <4> QED
        BY <1>4, <4>3
    <3> QED
      BY <3>1, <3>2
  <2> QED
    BY <2>2, <2>3
<1>10. ASSUME NEW w \in Workers, Takes(w)
       PROVE  /\ SumAfter(day') + Room(MonthArmed') < Ceiling + Slack
              /\ \A d \in Days : MonthStart[d] # MonthStart[day'] => SumAfter(d) = Sum(d)
  <2>1. MonthArmed' \subseteq MonthArmed
    BY <1>10 DEF Takes, Others, MonthArmed
  <2> QED
    BY <1>7, <1>10, <2>1 DEF Takes
<1>11. ASSUME NEW w \in Workers, Execute(w) \/ Interrupted(w)
       PROVE  /\ SumAfter(day') + Room(MonthArmed') < Ceiling + Slack
              /\ \A d \in Days : MonthStart[d] # MonthStart[day'] => SumAfter(d) = Sum(d)
  <2>1. Others(w) /\ Passes(w) /\ Goes(w)
    BY <1>11, WorkerSteps
  <2>2. PICK b \in Nat, a \in Nat, n \in Nat : Charges(w, b, a, n)
    BY <1>11, WorkerSteps
  <2>3. day' = day /\ User(w) \in Users /\ a <= MaxCost
    BY <1>0, <2>1, <2>2, OfItsRun DEF Goes, Charges
  <2>4. \A p \in (Users \X Days) \ {<<User(w), day>>} : used'[p] = used[p]
    BY <2>2 DEF Charges
  <2>5. ASSUME NEW d \in Days, MonthStart[d] # MonthStart[day] PROVE SumAfter(d) = Sum(d)
    <3>1. ASSUME NEW p \in Users \X Month(d) PROVE used'[p] = used[p]
      <4>1. p \in Users \X Days /\ p # <<User(w), day>>
        BY <2>5 DEF Month
      <4> QED
        BY <2>4, <4>1
    <3> QED
      BY <3>1, TotalSame
  <2>6. SumAfter(day) = Sum(day) + a
    <3>1. day \in Month(day) /\ <<User(w), day>> \in Users \X Month(day)
      BY <1>0, <2>3 DEF Month
    <3>2. \A p \in Users \X Month(day) : p \in Users \X Days /\ used[p] \in Nat
      BY <1>0, MonthRows
    <3>3. \A p \in Users \X Days : used'[p] \in Nat
      BY <1>0 DEF TypeOK
    <3>4. IsFiniteSet(Users \X Month(day))
      BY <1>0, MonthRows
    <3>5. \A p \in (Users \X Month(day)) \ {<<User(w), day>>} : used'[p] = used[p]
      BY <2>4, <3>2
    <3>6. SumAfter(day) = Sum(day) - used[<<User(w), day>>] + used'[<<User(w), day>>]
      <4> DEFINE S == Users \X Month(day)
                 y == <<User(w), day>>
      <4>1. \A p \in S : used[p] \in Nat /\ used'[p] \in Nat
        BY <3>2, <3>3
      <4>2. IsFiniteSet(S) /\ y \in S /\ \A p \in S \ {y} : used'[p] = used[p]
        BY <3>1, <3>4, <3>5
      <4> HIDE DEF S, y
      <4>3. Total(used', S) = Total(used, S) - used[y] + used'[y]
        BY <4>1, <4>2, TotalChange
      <4> QED
        BY <4>3 DEF S, y
    <3>7. used'[<<User(w), day>>] = used[<<User(w), day>>] + a /\ used[<<User(w), day>>] \in Nat
      BY <2>2, <3>1, <3>2 DEF Charges
    <3>8. Sum(day) \in Nat
      BY <1>0, <1>5
    <3> HIDE DEF Sum, SumAfter
    <3> QED
      BY <3>6, <3>7, <3>8
  <2>7. MonthArmed' \ {w} \subseteq MonthArmed
    BY <2>1, <2>3 DEF Others, MonthArmed
  <2>8. SumAfter(day) + Room(MonthArmed') < Ceiling + Slack
    <3>0. Sum(day) \in Nat /\ SumAfter(day) \in Nat
      BY <1>0, <1>5
    <3>1. CASE a # 0
      <4>1. pc[w] = "answered" /\ pc'[w] = "recorded"
        BY <2>2, <3>1 DEF Charges
      <4>2. w \in MonthArmed /\ w \notin MonthArmed'
        BY <4>1 DEF MonthArmed
      <4>3. Room(MonthArmed') + MaxCost <= Room(MonthArmed)
        BY <1>3, <2>7, <4>2, Rooms
      <4> HIDE DEF Sum, SumAfter
      <4> QED
        BY <1>1, <1>4, <2>3, <2>6, <3>0, <4>3
    <3>2. CASE a = 0 /\ MonthArmed' \subseteq MonthArmed
      <4>1. Room(MonthArmed') <= Room(MonthArmed)
        BY <1>3, <3>2, Rooms
      <4> HIDE DEF Sum, SumAfter
      <4> QED
        BY <1>1, <1>4, <2>6, <3>0, <3>2, <4>1
    <3>3. CASE a = 0 /\ ~(MonthArmed' \subseteq MonthArmed)
      <4>1. w \in MonthArmed' /\ w \notin MonthArmed
        BY <2>7, <3>3
      <4>2. pc'[w] = "under_ceiling" /\ pc[w] = "resolved" /\ MonthStart[wDay[w]] = MonthStart[day]
        BY <2>1, <2>3, <4>1 DEF MonthArmed, Passes
      <4>3. ~(MonthTotal(wDay[w]) >= Ceiling) /\ wDay[w] \in Days
        BY <1>0, <2>1, <4>2 DEF Passes, TypeOK
      <4>4. Month(wDay[w]) = Month(day)
        BY <4>2 DEF Month
      <4>5. /\ MonthTotal(wDay[w]) \in Nat
            /\ Total(used, Users \X Month(wDay[w])) <= MonthTotal(wDay[w])
        BY <1>0, <4>3, MonthRows
      <4>6. Sum(day) <= MonthTotal(wDay[w])
        BY <4>4, <4>5
      <4> HIDE DEF Sum, SumAfter
      <4> QED
        BY <1>4, <2>6, <3>0, <3>3, <4>3, <4>5, <4>6
    <3> QED
      BY <3>1, <3>2, <3>3
  <2> QED
    BY <2>3, <2>5, <2>8
<1> QED
  BY <1>8, <1>9, <1>10, <1>11, StepKinds

----------------------------------------------------------------------------
(* The ledger *)

\* A sum over some of S is a sum over S in which the others are 0.
LEMMA TotalExtend ==
  ASSUME NEW f, NEW S, NEW T \in SUBSET S
  PROVE  Total(f, T) = Total([x \in S |-> IF x \in T THEN f[x] ELSE 0], S)
<1> DEFINE g == [x \in S |-> IF x \in T THEN f[x] ELSE 0]
<1>1. \A x \in T : g[x] = f[x]
  OBVIOUS
<1>2. \A x \in S \ T : g[x] = 0
  OBVIOUS
<1> HIDE DEF g
<1>3. ASSUME NEW p \in Tokens(f, T) PROVE p \in Tokens(g, S)
  <2>1. PICK x \in T : p \in {x} \X (1 .. f[x])
    BY TokensAre
  <2>2. p \in {x} \X (1 .. g[x]) /\ x \in S
    BY <1>1, <2>1
  <2> QED
    BY <2>2, TokensAre
<1>4. ASSUME NEW p \in Tokens(g, S) PROVE p \in Tokens(f, T)
  <2>1. PICK x \in S : p \in {x} \X (1 .. g[x])
    BY TokensAre
  <2>2. x \in T
    <3> SUFFICES ASSUME x \notin T PROVE FALSE
      OBVIOUS
    <3>1. p \in {x} \X (1 .. 0)
      BY <1>2, <2>1
    <3> QED
      BY <3>1
  <2>3. p \in {x} \X (1 .. f[x])
    BY <1>1, <2>1, <2>2
  <2> QED
    BY <2>2, <2>3, TokensAre
<1>5. Tokens(f, T) = Tokens(g, S)
  BY <1>3, <1>4
<1> QED
  BY <1>5 DEF Tokens, Total, g

\* What each worker is still to record for user u.
Owed(u) == [x \in Workers |-> IF x \in {w \in Workers : pc[w] # "idle" /\ User(w) = u}
                              THEN wCost[x] ELSE 0]

\* What has been charged and is neither in the ledger nor lost is owed.
Balanced(u) ==
  billed[u] = Total(used, {u} \X Days) + unrecorded[u] + Total(Owed(u), Workers)

\* That is what LedgerExact says.
LEMMA LedgerBalanced == LedgerExact <=> \A u \in Users : Balanced(u)
<1> SUFFICES ASSUME NEW u \in Users
             PROVE  Total(wCost, {w \in Workers : pc[w] # "idle" /\ User(w) = u})
                      = Total(Owed(u), Workers)
  BY DEF LedgerExact, Balanced
<1> DEFINE T == {w \in Workers : pc[w] # "idle" /\ User(w) = u}
<1>1. T \in SUBSET Workers
  OBVIOUS
<1>2. Owed(u) = [x \in Workers |-> IF x \in T THEN wCost[x] ELSE 0]
  BY DEF Owed
<1> HIDE DEF T
<1>3. Total(wCost, T) = Total([x \in Workers |-> IF x \in T THEN wCost[x] ELSE 0], Workers)
  BY <1>1, TotalExtend
<1> QED
  BY <1>2, <1>3 DEF T

\* Every token stays accounted for.
LEMMA LedgerInv ==
  ASSUME IInv, [Next]_vars
  PROVE  LedgerExact'
<1> USE LlmAssumption
<1>0. TypeOK /\ TypeOK' /\ CostWhenAnswered /\ day \in Days
  BY TypeInv DEF IInv, TypeOK
<1>1. \A u \in Users : Balanced(u)
  BY LedgerBalanced DEF IInv
<1>2. SUFFICES \A u \in Users : Balanced(u)'
  <2>1. (LedgerExact <=> \A u \in Users : Balanced(u))'
    BY LedgerBalanced, PTL
  <2> QED
    BY <1>2, <2>1
<1>3. ASSUME NEW u \in Users
      PROVE  /\ billed[u] \in Nat /\ billed'[u] \in Nat
             /\ unrecorded[u] \in Nat /\ unrecorded'[u] \in Nat
             /\ \A p \in {u} \X Days : p \in Users \X Days /\ used[p] \in Nat /\ used'[p] \in Nat
             /\ IsFiniteSet({u} \X Days) /\ IsFiniteSet(Workers)
             /\ Total(used, {u} \X Days) \in Nat
             /\ \A x \in Workers : Owed(u)[x] \in Nat /\ Owed(u)'[x] \in Nat
             /\ Total(Owed(u), Workers) \in Nat
  <2>1. {u} \in SUBSET Users /\ Days \in SUBSET Days
    OBVIOUS
  <2>2. IsFiniteSet({u} \X Days) /\ IsFiniteSet(Workers)
    BY <2>1, FiniteSums
  <2>3. \A p \in {u} \X Days : p \in Users \X Days
    OBVIOUS
  <2>4. \A p \in {u} \X Days : used[p] \in Nat /\ used'[p] \in Nat
    BY <1>0, <2>3 DEF TypeOK
  <2>5. Total(used, {u} \X Days) \in Nat
    BY <2>2, <2>4, TokensFinite
  <2>6. \A x \in Workers : wCost[x] \in Nat /\ wCost'[x] \in Nat
    BY <1>0 DEF TypeOK
  <2>7. \A x \in Workers : Owed(u)[x] \in Nat
    BY <2>6 DEF Owed
  <2>8. \A x \in Workers : Owed(u)'[x] \in Nat
    BY <2>6 DEF Owed
  <2>9. Total(Owed(u), Workers) \in Nat
    BY <2>2, <2>7, TokensFinite
  <2> QED
    BY <1>0, <2>2, <2>3, <2>4, <2>5, <2>7, <2>8, <2>9 DEF TypeOK
<1>4. ASSUME NEW u \in Users, UNCHANGED <<billed[u], unrecorded[u]>>,
             \A p \in {u} \X Days : used'[p] = used[p],
             \A x \in Workers : Owed(u)'[x] = Owed(u)[x]
      PROVE  Balanced(u)'
  <2>1. Total(used', {u} \X Days) = Total(used, {u} \X Days)
    BY <1>4, TotalSame
  <2>2. Total(Owed(u)', Workers) = Total(Owed(u), Workers)
    BY <1>4, TotalSame
  <2> QED
    BY <1>1, <1>4, <2>1, <2>2 DEF Balanced
<1>5. CASE RowsOnly \/ Midnight
  <2>1. UNCHANGED <<billed, unrecorded, used, pc, wRun, wCost>>
    BY <1>5 DEF RowsOnly, Midnight, workerVars
  <2>2. ASSUME NEW u \in Users PROVE Owed(u)' = Owed(u)
    BY <2>1 DEF Owed, User
  <2> QED
    BY <1>4, <2>1, <2>2
<1>6. ASSUME NEW w \in Workers, Takes(w) PROVE \A u \in Users : Balanced(u)'
  <2>1. UNCHANGED <<billed, unrecorded, used, wCost>> /\ wCost[w] = 0
    BY <1>6 DEF Takes
  <2>2. ASSUME NEW u \in Users, NEW x \in Workers PROVE Owed(u)'[x] = Owed(u)[x]
    <3>1. CASE x = w
      BY <2>1, <3>1 DEF Owed
    <3>2. CASE x # w
      BY <1>6, <3>2 DEF Takes, Others, Owed, User
    <3> QED
      BY <3>1, <3>2
  <2> QED
    BY <1>4, <2>1, <2>2
<1>7. ASSUME NEW w \in Workers, Execute(w) \/ Interrupted(w) PROVE \A u \in Users : Balanced(u)'
  <2>1. Others(w) /\ Goes(w)
    BY <1>7, WorkerSteps
  <2>2. PICK b \in Nat, a \in Nat, n \in Nat : Charges(w, b, a, n)
    BY <1>7, WorkerSteps
  <2>3. User(w) \in Users /\ pc[w] # "idle"
    BY <1>0, <2>1, OfItsRun DEF Goes
  <2>4. ASSUME NEW u \in Users, NEW x \in Workers \ {w} PROVE Owed(u)'[x] = Owed(u)[x]
    BY <2>1 DEF Others, Owed, User
  <2>5. ASSUME NEW u \in Users, u # User(w) PROVE Balanced(u)'
    <3>1. UNCHANGED <<billed[u], unrecorded[u]>>
      BY <2>2, <2>5 DEF Charges
    <3>2. ASSUME NEW p \in {u} \X Days PROVE used'[p] = used[p]
      <4>1. p \in (Users \X Days) \ {<<User(w), day>>}
        BY <2>5
      <4> QED
        BY <2>2, <4>1 DEF Charges
    <3>3. Owed(u)'[w] = Owed(u)[w]
      <4>1. Owed(u)[w] = 0
        BY <2>5 DEF Owed
      <4>2. Owed(u)'[w] = 0
        BY <2>1, <2>5 DEF Owed, Goes, User
      <4> QED
        BY <4>1, <4>2
    <3>4. \A x \in Workers : Owed(u)'[x] = Owed(u)[x]
      BY <2>4, <3>3
    <3> QED
      BY <1>4, <3>1, <3>2, <3>4
  <2>6. ASSUME NEW u \in Users, u = User(w) PROVE Balanced(u)'
    <3>1. Owed(u)[w] = wCost[w]
      BY <2>3, <2>6 DEF Owed
    <3>2. Owed(u)'[w] = wCost'[w]
      BY <2>1, <2>6 DEF Owed, Goes, User
    <3>3. Total(Owed(u)', Workers) = Total(Owed(u), Workers) - wCost[w] + wCost'[w]
      <4>1. PICK f : f = Owed(u)
        OBVIOUS
      <4>2. PICK g : g = Owed(u)'
        OBVIOUS
      <4>3. \A x \in Workers : f[x] \in Nat /\ g[x] \in Nat
        BY <1>3, <4>1, <4>2
      <4>4. \A x \in Workers \ {w} : g[x] = f[x]
        BY <2>4, <4>1, <4>2
      <4>5. IsFiniteSet(Workers)
        BY <1>3
      <4>6. Total(g, Workers) = Total(f, Workers) - f[w] + g[w]
        BY <4>3, <4>4, <4>5, TotalChange
      <4> QED
        BY <3>1, <3>2, <4>1, <4>2, <4>6
    <3>4. Total(used', {u} \X Days) = Total(used, {u} \X Days) + a
      <4> DEFINE S == {u} \X Days
                 y == <<u, day>>
      <4>1. y \in S /\ y \in Users \X Days /\ used[y] \in Nat /\ used'[y] = used[y] + a
        BY <1>0, <1>3, <2>2, <2>6 DEF Charges
      <4>2. IsFiniteSet(S) /\ \A p \in S : used[p] \in Nat /\ used'[p] \in Nat
        BY <1>3
      <4>3. \A p \in S \ {y} : used'[p] = used[p]
        BY <1>3, <2>2, <2>6 DEF Charges
      <4>4. Total(used, S) \in Nat
        BY <1>3
      <4> HIDE DEF S, y
      <4>5. Total(used', S) = Total(used, S) - used[y] + used'[y]
        <5>1. y \in S
          BY <4>1
        <5> QED
          BY <4>2, <4>3, <5>1, TotalChange
      <4>6. Total(used', S) = Total(used, S) + a
        BY <4>1, <4>4, <4>5
      <4> QED
        BY <4>6 DEF S
    <3>5. /\ billed'[u] = billed[u] + b /\ unrecorded'[u] = unrecorded[u] + n
          /\ wCost'[w] = wCost[w] + b - a - n /\ wCost[w] \in Nat
      BY <1>0, <2>2, <2>6 DEF Charges, TypeOK
    <3>6. billed[u] = Total(used, {u} \X Days) + unrecorded[u] + Total(Owed(u), Workers)
      BY <1>1 DEF Balanced
    <3>7. billed'[u] = Total(used', {u} \X Days) + unrecorded'[u] + Total(Owed(u)', Workers)
      <4> DEFINE T == Total(used, {u} \X Days)
                 O == Total(Owed(u), Workers)
      <4>1. T \in Nat /\ O \in Nat /\ unrecorded[u] \in Nat
        BY <1>3
      <4>2. billed[u] = T + unrecorded[u] + O
        BY <3>6
      <4>3. /\ Total(used', {u} \X Days) = T + a
            /\ Total(Owed(u)', Workers) = O - wCost[w] + wCost'[w]
        BY <3>3, <3>4
      <4> HIDE DEF T, O
      <4> QED
        BY <3>5, <4>1, <4>2, <4>3
    <3> QED
      BY <3>7 DEF Balanced
  <2> QED
    BY <2>5, <2>6
<1> QED
  BY <1>5, <1>6, <1>7, StepKinds

----------------------------------------------------------------------------
(* The theorems *)

\* The initial state.
LEMMA InitInv == Init => IInv
<1> SUFFICES ASSUME Init PROVE IInv
  OBVIOUS
<1> USE LlmAssumption
<1>1. TypeOK
  BY DEF Init, TypeOK, Days, AllRuns
<1>2. CostWhenAnswered /\ OwnText /\ OwnDataOnly /\ DaysPass
  BY DEF Init, CostWhenAnswered, OwnText, OwnDataOnly, DaysPass, Days
<1>3. day = 1 /\ day \in Days /\ (\A p \in Users \X Days : used[p] = 0)
  BY DEF Init, Days
<1>4. \A A \in SUBSET Workers : Room(A) \in Nat /\ Room(A) <= Slack /\ Slack \in Nat
  BY Rooms
<1>5. DailyCovered /\ DailyOvershoot
  <2>1. ASSUME NEW u \in Users, NEW d \in Days PROVE used[<<u, d>>] = 0
    BY <1>3
  <2>2. ASSUME NEW u \in Users PROVE used[<<u, day>>] + MaxCost * Cardinality(Armed(u)) < Daily + Slack
    <3>1. Room(Armed(u)) \in Nat /\ Room(Armed(u)) <= Slack /\ Slack \in Nat
      BY <1>4 DEF Armed
    <3>2. used[<<u, day>>] = 0
      BY <1>3, <2>1
    <3>3. used[<<u, day>>] + Room(Armed(u)) < Daily + Slack
      BY <3>1, <3>2
    <3> QED
      BY <3>3 DEF Room
  <2>3. Slack \in Nat
    BY <1>4
  <2> QED
    BY <2>1, <2>2, <2>3 DEF DailyCovered, DailyOvershoot
<1>6. \A d \in Days : Total(used, Users \X Month(d)) = 0
  <2> SUFFICES ASSUME NEW d \in Days PROVE Total(used, Users \X Month(d)) = 0
    OBVIOUS
  <2>1. \A p \in Users \X Month(d) : used[p] = 0
    BY <1>3 DEF Month
  <2> QED
    BY <2>1, TotalZero
<1>7. MonthCovered /\ CeilingOvershoot
  <2>1. Room(MonthArmed) \in Nat /\ Room(MonthArmed) <= Slack /\ Slack \in Nat
    BY <1>4 DEF MonthArmed
  <2>2. Total(used, Users \X Month(day)) + Room(MonthArmed) < Ceiling + Slack
    BY <1>3, <1>6, <2>1
  <2>3. \A d \in Days : Total(used, Users \X Month(d)) < Ceiling + Slack
    BY <1>6, <2>1
  <2> QED
    BY <2>2, <2>3 DEF MonthCovered, CeilingOvershoot, Room, Month
<1>8. LedgerExact
  <2> SUFFICES ASSUME NEW u \in Users PROVE Balanced(u)
    BY LedgerBalanced
  <2>1. Total(used, {u} \X Days) = 0
    <3>1. \A p \in {u} \X Days : used[p] = 0
      BY <1>3
    <3> QED
      BY <3>1, TotalZero
  <2>2. Total(Owed(u), Workers) = 0
    <3>1. \A x \in Workers : Owed(u)[x] = 0
      BY DEF Owed, Init
    <3> QED
      BY <3>1, TotalZero
  <2> QED
    BY <2>1, <2>2 DEF Init, Balanced
<1> QED
  BY <1>1, <1>2, <1>5, <1>7, <1>8 DEF IInv

\* The invariant holds in every reachable state.
THEOREM LlmInvariance == Spec => []IInv
<1>1. IInv /\ [Next]_vars => IInv'
  <2> SUFFICES ASSUME IInv, [Next]_vars PROVE IInv'
    OBVIOUS
  <2> QED
    BY TypeInv, ClockInv, OwnInv, DailyInv, MonthInv, LedgerInv DEF IInv
<1> QED
  BY <1>1, InitInv, PTL DEF Spec

\* The variables of the LLM actions keep their types: no counter of tokens ever
\* becomes negative, and a worker that executes has a run.
THEOREM LlmTypeCorrect == Spec => []TypeOK
<1>1. IInv => TypeOK
  BY DEF IInv
<1> QED
  BY <1>1, LlmInvariance, PTL

\* check_token_budget reads, and reserves nothing: however many workers pass it
\* at once, and on whatever day their calls are recorded, no day of a user passes
\* the daily budget by as much as one call of every worker.
THEOREM DailyBudgetHolds == Spec => []DailyOvershoot
<1>1. IInv => DailyOvershoot
  BY DEF IInv
<1> QED
  BY <1>1, LlmInvariance, PTL

\* The same of the ceiling over all users, for every month.
THEOREM CeilingHolds == Spec => []CeilingOvershoot
<1>1. IInv => CeilingOvershoot
  BY DEF IInv
<1> QED
  BY <1>1, LlmInvariance, PTL

\* record_token_usage adds: every token charged is in the ledger once, lost in a
\* way the code accepts, or still to be recorded.
THEOREM EveryTokenAccounted == Spec => []LedgerExact
<1>1. IInv => LedgerExact
  BY DEF IInv
<1> QED
  BY <1>1, LlmInvariance, PTL

\* read_upstream is scoped to the run's user: no chain of from_run_id carries one
\* user's data into another's result.
THEOREM NoUserMixing == Spec => []OwnDataOnly
<1>1. IInv => OwnDataOnly
  BY DEF IInv
<1> QED
  BY <1>1, LlmInvariance, PTL
=============================================================================
