--------------------------- MODULE AdmissionProofs ---------------------------
(***************************************************************************)
(* Proofs about Admission, for any number of requests, users and servers   *)
(* and any limits and caps.                                                *)
(***************************************************************************)
EXTENDS Admission, FiniteSetTheorems, FunctionTheorems, TLAPS

\* The requests of a server that hold one of its slots.
Holding(s) == {q \in Requests : ServerOf[q] = s /\ pc[q] \in Inside}

\* All requests that hold a slot.
Admitted == {q \in Requests : pc[q] \in Inside}

\* The jobs of S that are active and the requests of S that have passed a count
\* and may still insert theirs.
Load(S, passed) == {q \in S : job[q] = "active" \/ pc[q] \in passed}

\* The steps at which a request has passed the count of the user's recurring
\* jobs, of all the user's jobs, of everyone's recurring jobs.
PastRecurring == {"recurring", "total", "contained", "looked_up"}
PastTotal     == {"total", "contained", "looked_up"}
PastGlobal    == {"contained", "looked_up"}

\* What a count is bounded by together with those that passed it before.
Bounded(S, passed, cap) == Cardinality(Load(S, passed)) < cap + Slots

NonOperators == {q \in Recurring : ~IsOperator(q)}

LoadBounded ==
  /\ \A u \in Users \ {Operator} :
       /\ Bounded(OfUser(u) \intersect Recurring, PastRecurring, RecurringCap)
       /\ Bounded(OfUser(u), PastTotal, TotalCap)
  /\ Bounded(NonOperators, PastGlobal, GlobalCap)

----------------------------------------------------------------------------
(* What the steps of a request do *)

\* The inductive invariant.
IInv == TypeOK /\ SlotsExact /\ OneJobPerKey /\ LoadBounded

\* The actions of a request, for splitting Next.
StepOf(q) == EdgeStep(q) \/ ToolStep(q) \/ JobEnds(q) \/ JobAges(q)

\* The five things a step of a request can be: it leaves, takes a slot, goes on
\* from one check to the next, inserts its job, or its job ends or ages.
Leaves(q) == Leave(q) /\ UNCHANGED job

TakesSlot(q) ==
  /\ pc[q] = "rated" /\ inflight[ServerOf[q]] < Limit
  /\ pc' = [pc EXCEPT ![q] = "inside"]
  /\ inflight' = [inflight EXCEPT ![ServerOf[q]] = @ + 1]
  /\ UNCHANGED <<job, age>>

\* The counts that a step from one check to the next implies.
Passes(q, S, cap, from, to) ==
  /\ pc[q] = from /\ pc'[q] = to
  /\ Cardinality(Active(S)) < cap

GoesOn(q) ==
  /\ \E step \in {"healthy", "rated"} \union Inside :
       /\ Advance(q, step)
       /\ step \in Inside <=> pc[q] \in Inside
       /\ step \notin PastRecurring \/ IsOperator(q) \/
          \/ Passes(q, OfUser(UserOf[q]) \intersect Recurring, RecurringCap, "paced", "recurring")
          \/ Passes(q, OfUser(UserOf[q]), TotalCap, "recurring", "total")
          \/ Passes(q, Recurring, GlobalCap, "total", "contained")
          \/ pc[q] = "contained" /\ pc'[q] = "looked_up"

Inserts(q) ==
  /\ pc[q] = "looked_up"
  /\ \A p \in Requests : SameKey(q, p) => ~Exists(p)
  /\ job' = [job EXCEPT ![q] = "active"]
  /\ pc' = [pc EXCEPT ![q] = "committed"]
  /\ UNCHANGED <<age, inflight>>

JobMoves(q) ==
  /\ Exists(q)
  /\ \/ job' = [job EXCEPT ![q] = "ended"] /\ UNCHANGED age
     \/ age' \in [Requests -> {"minute", "day", "old"}] /\ UNCHANGED job
  /\ UNCHANGED <<pc, inflight>>

\* Every action of a request is one of these.
LEMMA Shapes ==
  ASSUME TypeOK, NEW q \in Requests, StepOf(q)
  PROVE  Leaves(q) \/ TakesSlot(q) \/ GoesOn(q) \/ Inserts(q) \/ JobMoves(q)
<1> USE AdmissionAssumption DEF TypeOK
<1>1. CASE ShedHot(q) \/ Authenticate(q) \/ Disconnect(q) \/ Invalid(q) \/ CheckConnection(q)
           \/ Respond(q)
  BY <1>1 DEF ShedHot, Authenticate, Disconnect, Invalid, CheckConnection, Respond, Leaves
<1>2. CASE ReadDepth(q) \/ EdgeRate(q)
  BY <1>2 DEF ReadDepth, EdgeRate, Leaves, GoesOn, Inside, PastRecurring, Advance
<1>3. CASE Acquire(q)
  BY <1>3 DEF Acquire, Leaves, TakesSlot
<1>4. CASE Backpressure(q)
  BY <1>4 DEF Backpressure, Leaves, GoesOn, Inside, PastRecurring, Advance
<1>5. CASE Pace(q)
  BY <1>5 DEF Pace, Leaves, GoesOn, Inside, PastRecurring, Advance
<1>6. CASE CountRecurring(q)
  BY <1>6 DEF CountRecurring, Count, Leaves, GoesOn, Passes, Inside, Advance
<1>7. CASE CountTotal(q)
  BY <1>7 DEF CountTotal, Count, Leaves, GoesOn, Passes, Inside, Advance
<1>8. CASE CountGlobal(q)
  BY <1>8 DEF CountGlobal, Count, Leaves, GoesOn, Passes, Inside, Advance
<1>9. CASE LookUp(q)
  BY <1>9 DEF LookUp, Leaves, GoesOn, Inside, Advance
<1>10. CASE Insert(q)
  BY <1>10 DEF Insert, Leaves, Inserts
<1>11. CASE JobEnds(q) \/ JobAges(q)
  BY <1>11 DEF JobEnds, JobAges, JobMoves, Exists
<1> QED
  BY <1>1, <1>2, <1>3, <1>4, <1>5, <1>6, <1>7, <1>8, <1>9, <1>10, <1>11
  DEF StepOf, EdgeStep, ToolStep

----------------------------------------------------------------------------
(* Slots *)

\* Any set of requests is finite.
LEMMA RequestsFinite ==
  ASSUME NEW S \in SUBSET Requests
  PROVE  IsFiniteSet(S) /\ Cardinality(S) \in Nat
  BY AdmissionAssumption, FS_Subset, FS_CardinalityType

\* A request that leaves gives back the slot it holds, and no other.
LEMMA LeaveSlots ==
  ASSUME TypeOK, SlotsExact, NEW q \in Requests, Leave(q)
  PROVE  inflight' \in [Servers -> 0 .. Limit] /\ SlotsExact'
<1> USE AdmissionAssumption DEF TypeOK, Leave
<1>1. "done" \notin Inside
  BY DEF Inside
<1>2. ASSUME NEW s \in Servers
      PROVE  inflight'[s] \in 0 .. Limit /\ inflight'[s] = Cardinality(Holding(s)')
  <2>0. inflight[s] = Cardinality(Holding(s)) /\ inflight[s] \in 0 .. Limit
    BY DEF SlotsExact, Holding
  <2>1. CASE s = ServerOf[q] /\ pc[q] \in Inside
    <3>1. Holding(s)' = Holding(s) \ {q} /\ q \in Holding(s)
      BY <1>1, <2>1 DEF Holding
    <3>2. Cardinality(Holding(s) \ {q}) = Cardinality(Holding(s)) - 1
      BY <3>1, FS_RemoveElement, RequestsFinite DEF Holding
    <3>3. Cardinality(Holding(s)') \in Nat
      BY <3>1, RequestsFinite DEF Holding
    <3>4. inflight'[s] = inflight[s] - 1
      BY <2>1
    <3> QED
      BY <2>0, <3>1, <3>2, <3>3, <3>4
  <2>2. CASE ~(s = ServerOf[q] /\ pc[q] \in Inside)
    <3>1. Holding(s)' = Holding(s)
      BY <1>1, <2>2 DEF Holding
    <3>2. inflight'[s] = inflight[s]
      BY <2>2
    <3> QED
      BY <2>0, <3>1, <3>2
  <2> QED
    BY <2>1, <2>2
<1> QED
  BY <1>2 DEF SlotsExact, Holding

\* A request that takes a slot is counted, once.
LEMMA TakeSlots ==
  ASSUME TypeOK, SlotsExact, NEW q \in Requests, TakesSlot(q)
  PROVE  inflight' \in [Servers -> 0 .. Limit] /\ SlotsExact'
<1> USE AdmissionAssumption DEF TypeOK, TakesSlot
<1>1. "inside" \in Inside /\ "rated" \notin Inside
  BY DEF Inside
<1>2. ASSUME NEW s \in Servers
      PROVE  inflight'[s] \in 0 .. Limit /\ inflight'[s] = Cardinality(Holding(s)')
  <2>0. inflight[s] = Cardinality(Holding(s)) /\ inflight[s] \in 0 .. Limit
    BY DEF SlotsExact, Holding
  <2>1. CASE s = ServerOf[q]
    <3>1. Holding(s)' = Holding(s) \union {q} /\ q \notin Holding(s)
      BY <1>1, <2>1 DEF Holding
    <3>2. Cardinality(Holding(s) \union {q}) = Cardinality(Holding(s)) + 1
      BY <3>1, FS_AddElement, RequestsFinite DEF Holding
    <3>3. inflight'[s] = inflight[s] + 1 /\ inflight[s] < Limit
      BY <2>1
    <3> QED
      BY <2>0, <3>1, <3>2, <3>3
  <2>2. CASE s # ServerOf[q]
    <3>1. Holding(s)' = Holding(s)
      BY <1>1, <2>2 DEF Holding
    <3>2. inflight'[s] = inflight[s]
      BY <2>2
    <3> QED
      BY <2>0, <3>1, <3>2
  <2> QED
    BY <2>1, <2>2
<1> QED
  BY <1>2 DEF SlotsExact, Holding

\* The other steps of a request move no slot.
LEMMA KeepSlots ==
  ASSUME TypeOK, SlotsExact, NEW q \in Requests, GoesOn(q) \/ Inserts(q) \/ JobMoves(q)
  PROVE  SlotsExact'
<1>1. inflight' = inflight /\ \A p \in Requests : pc'[p] \in Inside <=> pc[p] \in Inside
  BY DEF TypeOK, GoesOn, Advance, Inserts, JobMoves, Inside
<1>2. \A s \in Servers : Holding(s)' = Holding(s)
  BY <1>1 DEF Holding
<1> QED
  BY <1>1, <1>2 DEF SlotsExact, Holding

\* A restarted server has no request and no slot taken.
LEMMA RestartSlots ==
  ASSUME TypeOK, SlotsExact, NEW r \in Servers, Restart(r)
  PROVE  SlotsExact'
<1> USE AdmissionAssumption DEF TypeOK, Restart
<1>1. "done" \notin Inside /\ "arriving" \notin Inside
  BY DEF Inside
<1>2. \A s \in Servers \ {r} : Holding(s)' = Holding(s) /\ inflight'[s] = inflight[s]
  BY <1>1 DEF Holding
<1>3. Holding(r)' = {} /\ inflight'[r] = 0
  BY <1>1 DEF Holding
<1>4. Cardinality(Holding(r)') = 0
  BY <1>3, FS_EmptySet
<1>5. ASSUME NEW s \in Servers PROVE inflight'[s] = Cardinality(Holding(s)')
  <2>1. inflight[s] = Cardinality(Holding(s))
    BY DEF SlotsExact, Holding
  <2> QED
    BY <1>2, <1>3, <1>4, <2>1
<1> QED
  BY <1>5 DEF SlotsExact, Holding

\* No more requests hold a slot than the servers have.
LEMMA AdmittedBounded ==
  ASSUME TypeOK, SlotsExact
  PROVE  Cardinality(Admitted) <= Slots
<1> USE AdmissionAssumption DEF TypeOK
<1> DEFINE nth(s) == CHOOSE f : f \in Injection(Holding(s), 1 .. Limit)
           seat == [q \in Admitted |-> <<ServerOf[q], nth(ServerOf[q])[q]>>]
<1>1. ASSUME NEW s \in Servers PROVE nth(s) \in Injection(Holding(s), 1 .. Limit)
  <2>1. Cardinality(Holding(s)) \in 0 .. Limit
    BY DEF SlotsExact, Holding
  <2>2. IsFiniteSet(Holding(s))
    BY RequestsFinite DEF Holding
  <2>3. PICK g : g \in Bijection(1 .. Cardinality(Holding(s)), Holding(s))
    BY <2>2, FS_CardinalityType DEF ExistsBijection
  <2>4. \E f : f \in Bijection(Holding(s), 1 .. Cardinality(Holding(s)))
    BY <2>3, Fun_ExistsBijSymmetric, SMTT(30) DEF ExistsBijection
  <2>5. \E f : f \in Injection(Holding(s), 1 .. Limit)
    BY <2>1, <2>4 DEF Bijection, Injection, IsInjective
  <2> QED
    BY <2>5
<1>2. seat \in Injection(Admitted, Servers \X (1 .. Limit))
  <2> HIDE DEF nth
  <2>1. \A q \in Admitted : ServerOf[q] \in Servers /\ q \in Holding(ServerOf[q])
    BY DEF Admitted, Holding
  <2>2. \A q \in Admitted : nth(ServerOf[q])[q] \in 1 .. Limit
    BY <1>1, <2>1, Fun_InjectionProperties
  <2>3. seat \in [Admitted -> Servers \X (1 .. Limit)]
    BY <2>1, <2>2
  <2>4. ASSUME NEW p \in Admitted, NEW q \in Admitted, seat[p] = seat[q]
        PROVE  p = q
    <3>1. ServerOf[p] = ServerOf[q] /\ nth(ServerOf[p])[p] = nth(ServerOf[p])[q]
      BY <2>4
    <3> QED
      BY <1>1, <2>1, <3>1, Fun_InjectionProperties
  <2> QED
    BY <2>3, <2>4, Fun_IsInj
<1>3. IsFiniteSet(1 .. Limit) /\ Cardinality(1 .. Limit) = Limit
  BY FS_Interval
<1>4. /\ IsFiniteSet(Servers \X (1 .. Limit))
      /\ Cardinality(Servers \X (1 .. Limit)) = Cardinality(Servers) * Limit
  BY <1>3, FS_Product
<1>5. Cardinality(Admitted) <= Cardinality(Servers \X (1 .. Limit))
  BY <1>2, <1>4, FS_Injection
<1>6. Cardinality(Servers) \in Nat
  BY FS_CardinalityType
<1> QED
  BY <1>4, <1>5, <1>6 DEF Slots

----------------------------------------------------------------------------
(* Counts *)

\* A load that only shrinks stays within its bound.
LEMMA LoadShrinks ==
  ASSUME NEW S \in SUBSET Requests, NEW passed, NEW cap \in Nat,
         Bounded(S, passed, cap), Load(S, passed)' \subseteq Load(S, passed)
  PROVE  Bounded(S, passed, cap)'
<1>1. IsFiniteSet(Load(S, passed)) /\ Cardinality(Load(S, passed)) \in Nat
  BY RequestsFinite DEF Load
<1>2. Cardinality(Load(S, passed)') <= Cardinality(Load(S, passed))
  BY <1>1, FS_Subset
<1>3. Cardinality(Load(S, passed)') \in Nat
  BY RequestsFinite DEF Load
<1>4. Slots \in Nat
  BY AdmissionAssumption, FS_CardinalityType DEF Slots
<1> QED
  BY <1>1, <1>2, <1>3, <1>4 DEF Bounded

\* A load that grows because a request passed the count is within the bound: the
\* jobs counted were below the cap, and those that passed hold a slot each.
LEMMA LoadGrows ==
  ASSUME NEW S \in SUBSET Requests, NEW C \in SUBSET Requests, S \subseteq C,
         NEW passed \in SUBSET Inside, NEW cap \in Nat,
         TypeOK', SlotsExact', job' = job, Cardinality(Active(C)) < cap
  PROVE  Bounded(S, passed, cap)'
<1> DEFINE A == {q \in S : job[q] = "active"}
           P == {q \in S : pc'[q] \in passed}
<1>1. /\ IsFiniteSet(A) /\ Cardinality(A) \in Nat
      /\ IsFiniteSet(P) /\ Cardinality(P) \in Nat
  BY RequestsFinite
<1>2. Load(S, passed)' = A \union P
  BY DEF Load
<1>3. Cardinality(A) < cap
  <2>1. A \subseteq Active(C) /\ IsFiniteSet(Active(C)) /\ Cardinality(Active(C)) \in Nat
    BY RequestsFinite DEF Active
  <2>2. Cardinality(A) <= Cardinality(Active(C))
    BY <2>1, FS_Subset
  <2> QED
    BY <1>1, <2>1, <2>2
<1>4. Cardinality(P) <= Slots
  <2>1. P \subseteq Admitted' /\ IsFiniteSet(Admitted') /\ Cardinality(Admitted') \in Nat
    BY RequestsFinite DEF Admitted
  <2>2. Cardinality(Admitted') <= Slots
    <3>1. (TypeOK /\ SlotsExact => Cardinality(Admitted) <= Slots)'
      BY AdmittedBounded, PTL
    <3> QED
      BY <3>1 DEF Slots
  <2>3. Cardinality(P) <= Cardinality(Admitted')
    BY <2>1, FS_Subset
  <2>4. Slots \in Nat
    BY AdmissionAssumption, FS_CardinalityType DEF Slots
  <2> QED
    BY <1>1, <2>1, <2>2, <2>3, <2>4
<1>5. Cardinality(A \union P) <= Cardinality(A) + Cardinality(P)
  <2>1. Cardinality(A \intersect P) \in Nat
    BY <1>1, RequestsFinite
  <2>2. Cardinality(A \union P) = Cardinality(A) + Cardinality(P) - Cardinality(A \intersect P)
    BY <1>1, FS_Union
  <2> HIDE DEF A, P
  <2> QED
    BY <1>1, <2>1, <2>2
<1>6. Cardinality(A \union P) \in Nat /\ Slots \in Nat
  BY RequestsFinite, AdmissionAssumption, FS_CardinalityType DEF Slots
<1> HIDE DEF A, P
<1>7. Cardinality(A \union P) < cap + Slots
  BY <1>1, <1>3, <1>4, <1>5, <1>6
<1>8. Cardinality(Load(S, passed)') < cap + Slots
  BY <1>2, <1>7
<1> QED
  BY <1>8 DEF Bounded, Slots

\* The sets of requests the three counts are about.
LEMMA CountedSets ==
  /\ \A u \in Users : OfUser(u) \in SUBSET Requests
  /\ \A u \in Users : OfUser(u) \intersect Recurring \in SUBSET Requests
  /\ NonOperators \in SUBSET Requests /\ NonOperators \subseteq Recurring
  /\ Recurring \in SUBSET Requests
  /\ RecurringCap \in Nat /\ TotalCap \in Nat /\ GlobalCap \in Nat
  /\ PastRecurring \in SUBSET Inside /\ PastTotal \in SUBSET Inside
  /\ PastGlobal \in SUBSET Inside
  BY AdmissionAssumption DEF OfUser, NonOperators, Inside, PastRecurring, PastTotal, PastGlobal

\* If no load gains a request, all stay within their bounds.
LEMMA AllShrink ==
  ASSUME LoadBounded,
         \A S \in SUBSET Requests : /\ Load(S, PastRecurring)' \subseteq Load(S, PastRecurring)
                                    /\ Load(S, PastTotal)' \subseteq Load(S, PastTotal)
                                    /\ Load(S, PastGlobal)' \subseteq Load(S, PastGlobal)
  PROVE  LoadBounded'
<1>1. ASSUME NEW u \in Users \ {Operator}
      PROVE  /\ Bounded(OfUser(u) \intersect Recurring, PastRecurring, RecurringCap)'
             /\ Bounded(OfUser(u), PastTotal, TotalCap)'
  BY CountedSets, LoadShrinks DEF LoadBounded
<1>2. Bounded(NonOperators, PastGlobal, GlobalCap)'
  BY CountedSets, LoadShrinks DEF LoadBounded
<1> QED
  BY <1>1, <1>2 DEF LoadBounded, OfUser, NonOperators, IsOperator

\* A step from one check to the next adds at most to the load whose count it
\* passed.
LEMMA GoesOnLoads ==
  ASSUME TypeOK, LoadBounded, TypeOK', SlotsExact', NEW q \in Requests, GoesOn(q)
  PROVE  LoadBounded'
<1> USE DEF TypeOK
<1>1. PICK step \in {"healthy", "rated"} \union Inside :
        /\ Advance(q, step)
        /\ step \notin PastRecurring \/ IsOperator(q) \/
           \/ Passes(q, OfUser(UserOf[q]) \intersect Recurring, RecurringCap, "paced", "recurring")
           \/ Passes(q, OfUser(UserOf[q]), TotalCap, "recurring", "total")
           \/ Passes(q, Recurring, GlobalCap, "total", "contained")
           \/ pc[q] = "contained" /\ pc'[q] = "looked_up"
  BY DEF GoesOn
<1>2. job' = job /\ pc' = [pc EXCEPT ![q] = step]
  BY <1>1 DEF Advance
<1>3. CASE step \notin PastRecurring
  BY <1>2, <1>3, AllShrink DEF Load, PastRecurring, PastTotal, PastGlobal
<1>4. CASE pc[q] = "contained" /\ pc'[q] = "looked_up"
  BY <1>2, <1>4, AllShrink DEF Load, PastRecurring, PastTotal, PastGlobal
<1>5. CASE IsOperator(q)
  <2>1. \A S \in SUBSET (Requests \ {q}), passed \in SUBSET Inside :
          Load(S, passed)' \subseteq Load(S, passed)
    BY <1>2 DEF Load
  <2>2. \A u \in Users \ {Operator} : q \notin OfUser(u)
    BY <1>5 DEF OfUser, IsOperator
  <2>3. q \notin NonOperators
    BY <1>5 DEF NonOperators
  <2>4. ASSUME NEW u \in Users \ {Operator}
        PROVE  /\ Bounded(OfUser(u) \intersect Recurring, PastRecurring, RecurringCap)'
               /\ Bounded(OfUser(u), PastTotal, TotalCap)'
    BY <2>1, <2>2, CountedSets, LoadShrinks DEF LoadBounded
  <2>5. Bounded(NonOperators, PastGlobal, GlobalCap)'
    BY <2>1, <2>3, CountedSets, LoadShrinks DEF LoadBounded
  <2> QED
    BY <2>4, <2>5 DEF LoadBounded, OfUser, NonOperators, IsOperator
<1>6. CASE Passes(q, OfUser(UserOf[q]) \intersect Recurring, RecurringCap, "paced", "recurring")
  <2>0. pc[q] = "paced" /\ pc'[q] = "recurring"
    BY <1>6 DEF Passes
  <2>1. /\ \A S \in SUBSET Requests : Load(S, PastTotal)' \subseteq Load(S, PastTotal)
        /\ \A S \in SUBSET Requests : Load(S, PastGlobal)' \subseteq Load(S, PastGlobal)
    BY <1>2, <2>0 DEF Load, PastTotal, PastGlobal
  <2>2. ASSUME NEW u \in Users \ {Operator}
        PROVE  Bounded(OfUser(u) \intersect Recurring, PastRecurring, RecurringCap)'
    <3>1. CASE u = UserOf[q]
      BY <1>2, <1>6, <3>1, CountedSets, LoadGrows DEF Passes
    <3>2. CASE u # UserOf[q]
      <4>1. Load(OfUser(u) \intersect Recurring, PastRecurring)'
              \subseteq Load(OfUser(u) \intersect Recurring, PastRecurring)
        BY <1>2, <3>2 DEF Load, OfUser
      <4> QED
        BY <4>1, CountedSets, LoadShrinks DEF LoadBounded
    <3> QED
      BY <3>1, <3>2
  <2>3. /\ \A u \in Users \ {Operator} : Bounded(OfUser(u), PastTotal, TotalCap)'
        /\ Bounded(NonOperators, PastGlobal, GlobalCap)'
    BY <2>1, CountedSets, LoadShrinks DEF LoadBounded
  <2> QED
    BY <2>2, <2>3 DEF LoadBounded, OfUser, NonOperators, IsOperator
<1>7. CASE Passes(q, OfUser(UserOf[q]), TotalCap, "recurring", "total")
  <2>0. pc[q] = "recurring" /\ pc'[q] = "total"
    BY <1>7 DEF Passes
  <2>1. /\ \A S \in SUBSET Requests : Load(S, PastRecurring)' \subseteq Load(S, PastRecurring)
        /\ \A S \in SUBSET Requests : Load(S, PastGlobal)' \subseteq Load(S, PastGlobal)
    BY <1>2, <2>0 DEF Load, PastRecurring, PastGlobal
  <2>2. ASSUME NEW u \in Users \ {Operator}
        PROVE  Bounded(OfUser(u), PastTotal, TotalCap)'
    <3>1. CASE u = UserOf[q]
      BY <1>2, <1>7, <3>1, CountedSets, LoadGrows DEF Passes
    <3>2. CASE u # UserOf[q]
      <4>1. Load(OfUser(u), PastTotal)' \subseteq Load(OfUser(u), PastTotal)
        BY <1>2, <3>2 DEF Load, OfUser
      <4> QED
        BY <4>1, CountedSets, LoadShrinks DEF LoadBounded
    <3> QED
      BY <3>1, <3>2
  <2>3. /\ \A u \in Users \ {Operator} :
             Bounded(OfUser(u) \intersect Recurring, PastRecurring, RecurringCap)'
        /\ Bounded(NonOperators, PastGlobal, GlobalCap)'
    BY <2>1, CountedSets, LoadShrinks DEF LoadBounded
  <2> QED
    BY <2>2, <2>3 DEF LoadBounded, OfUser, NonOperators, IsOperator
<1>8. CASE Passes(q, Recurring, GlobalCap, "total", "contained")
  <2>0. pc[q] = "total" /\ pc'[q] = "contained"
    BY <1>8 DEF Passes
  <2>1. /\ \A S \in SUBSET Requests : Load(S, PastRecurring)' \subseteq Load(S, PastRecurring)
        /\ \A S \in SUBSET Requests : Load(S, PastTotal)' \subseteq Load(S, PastTotal)
    BY <1>2, <2>0 DEF Load, PastRecurring, PastTotal
  <2>2. Bounded(NonOperators, PastGlobal, GlobalCap)'
    BY <1>2, <1>8, CountedSets, LoadGrows DEF Passes
  <2>3. \A u \in Users \ {Operator} :
          /\ Bounded(OfUser(u) \intersect Recurring, PastRecurring, RecurringCap)'
          /\ Bounded(OfUser(u), PastTotal, TotalCap)'
    BY <2>1, CountedSets, LoadShrinks DEF LoadBounded
  <2> QED
    BY <2>2, <2>3 DEF LoadBounded, OfUser, NonOperators, IsOperator
<1> QED
  BY <1>1, <1>3, <1>4, <1>5, <1>6, <1>7, <1>8

----------------------------------------------------------------------------
(* The invariant *)

\* Before anything arrives the invariant holds: nothing is counted.
LEMMA InitInv == Init => IInv
<1> SUFFICES ASSUME Init PROVE IInv
  OBVIOUS
<1> USE AdmissionAssumption DEF Init
<1>1. TypeOK
  BY DEF TypeOK, DepthLevel
<1>2. OneJobPerKey
  BY DEF OneJobPerKey, Exists
<1>3. SlotsExact
  <2>1. \A s \in Servers : Holding(s) = {}
    BY DEF Holding, Inside
  <2>2. \A s \in Servers : Cardinality(Holding(s)) = 0
    BY <2>1, FS_EmptySet
  <2> QED
    BY <2>2 DEF SlotsExact, Holding
<1>4. LoadBounded
  <2>1. ASSUME NEW S \in SUBSET Requests, NEW passed \in {PastRecurring, PastTotal, PastGlobal},
               NEW cap \in Nat \ {0}
        PROVE  Bounded(S, passed, cap)
    <3>1. Load(S, passed) = {}
      BY DEF Load, PastRecurring, PastTotal, PastGlobal
    <3>2. Slots \in Nat
      BY FS_CardinalityType DEF Slots
    <3> QED
      BY <3>1, <3>2, FS_EmptySet DEF Bounded
  <2> QED
    BY <2>1, CountedSets DEF LoadBounded
<1> QED
  BY <1>1, <1>2, <1>3, <1>4 DEF IInv

\* Every step of a request keeps the types.
LEMMA TypeStep ==
  ASSUME TypeOK, SlotsExact, NEW q \in Requests, StepOf(q)
  PROVE  TypeOK'
<1> USE AdmissionAssumption DEF TypeOK
<1>1. inflight' \in [Servers -> 0 .. Limit]
  BY Shapes, LeaveSlots, TakeSlots DEF Leaves, GoesOn, Advance, Inserts, JobMoves
<1>2. /\ pc' \in [Requests -> {"arriving", "healthy", "rated", "done"} \union Inside]
      /\ job' \in [Requests -> {"none", "active", "ended"}]
      /\ age' \in [Requests -> {"minute", "day", "old"}]
  <2>1. CASE Leaves(q)
    BY <2>1 DEF Leaves, Leave
  <2>2. CASE TakesSlot(q) \/ Inserts(q)
    BY <2>2 DEF TakesSlot, Inserts, Inside
  <2>3. CASE GoesOn(q)
    BY <2>3 DEF GoesOn, Advance
  <2>4. CASE JobMoves(q)
    BY <2>4 DEF JobMoves
  <2> QED
    BY <2>1, <2>2, <2>3, <2>4, Shapes
<1>3. depth' \in DepthLevel
  BY DEF StepOf, EdgeStep, ToolStep, JobEnds, JobAges, ShedHot, ReadDepth, Authenticate,
         EdgeRate, Acquire, Disconnect, Invalid, Backpressure, Pace, CountRecurring, CountTotal,
         CountGlobal, Count, CheckConnection, LookUp, Insert, Respond
<1>4. cached' \in [Servers -> DepthLevel \union {"none"}]
  <2>1. CASE ReadDepth(q) \/ Backpressure(q)
    BY <2>1 DEF ReadDepth, Backpressure, Readings, DepthLevel
  <2>2. CASE ~(ReadDepth(q) \/ Backpressure(q))
    BY <2>2 DEF StepOf, EdgeStep, ToolStep, JobEnds, JobAges, ShedHot, Authenticate,
         EdgeRate, Acquire, Disconnect, Invalid, Pace, CountRecurring, CountTotal,
         CountGlobal, Count, CheckConnection, LookUp, Insert, Respond
  <2> QED
    BY <2>1, <2>2
<1> QED
  BY <1>1, <1>2, <1>3, <1>4

\* ... the slots, the keys and the loads.
LEMMA RequestStep ==
  ASSUME IInv, NEW q \in Requests, StepOf(q)
  PROVE  IInv'
<1> USE DEF IInv
<1>1. TypeOK'
  BY TypeStep
<1>2. SlotsExact'
  BY Shapes, LeaveSlots, TakeSlots, KeepSlots DEF Leaves
<1>3. OneJobPerKey'
  <2>1. CASE Leaves(q) \/ TakesSlot(q) \/ GoesOn(q)
    BY <2>1 DEF OneJobPerKey, Exists, Leaves, TakesSlot, GoesOn, Advance
  <2>2. CASE Inserts(q)
    BY <2>2 DEF TypeOK, OneJobPerKey, Exists, SameKey, Inserts
  <2>3. CASE JobMoves(q)
    BY <2>3 DEF TypeOK, OneJobPerKey, Exists, JobMoves
  <2> QED
    BY <2>1, <2>2, <2>3, Shapes
<1>4. LoadBounded'
  <2>1. CASE GoesOn(q)
    BY <1>1, <1>2, <2>1, GoesOnLoads
  <2>2. CASE Leaves(q) \/ TakesSlot(q) \/ Inserts(q) \/ JobMoves(q)
    BY <2>2, AllShrink DEF TypeOK, Leaves, Leave, TakesSlot, Inserts, JobMoves, Load,
       PastRecurring, PastTotal, PastGlobal
  <2> QED
    BY <2>1, <2>2, Shapes
<1> QED
  BY <1>1, <1>2, <1>3, <1>4

\* The invariant is inductive.
LEMMA NextInv == IInv /\ [Next]_vars => IInv'
<1> SUFFICES ASSUME IInv, [Next]_vars PROVE IInv'
  OBVIOUS
<1>1. CASE \E q \in Requests : StepOf(q)
  BY <1>1, RequestStep
<1>2. ASSUME NEW s \in Servers, Restart(s) PROVE IInv'
  <2>1. TypeOK'
    BY <1>2, AdmissionAssumption DEF IInv, TypeOK, Restart
  <2>2. SlotsExact'
    BY <1>2, RestartSlots DEF IInv
  <2>3. OneJobPerKey'
    BY <1>2 DEF IInv, OneJobPerKey, Exists, SameKey, Restart
  <2>4. LoadBounded'
    BY <1>2, AllShrink DEF IInv, TypeOK, Restart, Load, PastRecurring, PastTotal, PastGlobal
  <2> QED
    BY <2>1, <2>2, <2>3, <2>4 DEF IInv
<1>3. CASE \/ \E s \in Servers : CacheExpires(s)
           \/ QueueMoves \/ UNCHANGED vars
  <2>0. UNCHANGED <<pc, job, age, inflight>>
    BY <1>3 DEF CacheExpires, QueueMoves, vars
  <2>1. TypeOK'
    BY <1>3, <2>0, AdmissionAssumption DEF IInv, TypeOK, CacheExpires, QueueMoves, vars
  <2>2. SlotsExact' /\ OneJobPerKey' /\ LoadBounded'
    BY <2>0 DEF IInv, SlotsExact, OneJobPerKey, Exists, SameKey, LoadBounded, Bounded, Load,
       Slots, OfUser, NonOperators, IsOperator
  <2> QED
    BY <2>1, <2>2 DEF IInv
<1> QED
  BY <1>1, <1>2, <1>3 DEF Next, StepOf

\* The invariant holds throughout.
THEOREM AdmissionInvariance == Spec => []IInv
  BY InitInv, NextInv, PTL DEF Spec

\* Every variable keeps its type; in particular no counter of the limiter goes
\* below zero or above its limit.
THEOREM AdmissionTypeCorrect == Spec => []TypeOK
<1>1. IInv => TypeOK
  BY DEF IInv
<1> QED
  BY <1>1, AdmissionInvariance, PTL

\* The limiter's counter is the number of requests it let in that have not
\* ended, however they ended: ConcurrencyLimiter leaks no slot.
THEOREM SlotsAreExact == Spec => []SlotsExact
<1>1. IInv => SlotsExact
  BY DEF IInv
<1> QED
  BY <1>1, AdmissionInvariance, PTL

\* A repeated create with the same idempotency key makes no second job.
THEOREM KeysAreUnique == Spec => []OneJobPerKey
<1>1. IInv => OneJobPerKey
  BY DEF IInv
<1> QED
  BY <1>1, AdmissionInvariance, PTL

\* The containment caps, counted before the insert and without a lock, are
\* exceeded by less than the number of slots of all servers.
THEOREM CapsOvershootBounded == Spec => []OvershootBounded
<1>1. ASSUME NEW S \in SUBSET Requests, NEW passed, NEW cap \in Nat, Bounded(S, passed, cap)
      PROVE  Cardinality(Active(S)) < cap + Slots
  <2>1. Active(S) \subseteq Load(S, passed)
    BY DEF Active, Load
  <2>2. IsFiniteSet(Load(S, passed)) /\ Cardinality(Load(S, passed)) \in Nat
    BY RequestsFinite DEF Load
  <2>3. Cardinality(Active(S)) <= Cardinality(Load(S, passed))
    BY <2>1, <2>2, FS_Subset
  <2>4. Cardinality(Active(S)) \in Nat
    BY RequestsFinite DEF Active
  <2>5. Slots \in Nat
    BY AdmissionAssumption, FS_CardinalityType DEF Slots
  <2> QED
    BY <1>1, <2>2, <2>3, <2>4, <2>5 DEF Bounded
<1>2. IInv => OvershootBounded
  BY <1>1, CountedSets DEF IInv, LoadBounded, OvershootBounded, NonOperators
<1> QED
  BY <1>2, AdmissionInvariance, PTL
=============================================================================
