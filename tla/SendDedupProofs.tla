--------------------------- MODULE SendDedupProofs ---------------------------
(***************************************************************************)
(* Proofs about SendDedup, for any set of runs and any number of attempts. *)
(***************************************************************************)
EXTENDS SendDedup, FiniteSetTheorems, TLAPS

\* What the handler's position says about the intent and the provider.
HandlerKnows(r) ==
  /\ step[r] = "confirming" => inbox[r] # {}
  /\ step[r] \in {"confirmed", "ok"} => intent[r] = "sent"
  /\ step[r] \in {"posting", "waiting", "confirming"} => intent[r] # "sent"

\* What the rows say when nobody is looking.
RowsKnow(r) ==
  /\ intent[r] = "sent" => inbox[r] # {}
  /\ status[r] = "SUCCEEDED" => intent[r] = "sent"

\* A run in a worker's hands cannot be claimed; one whose worker died is left
\* to Sweep C and cannot be claimed again.
CrashSettles(r) ==
  /\ step[r] # "idle" => status[r] \notin Claimable
  /\ r \in crashed => step[r] = "idle" /\ status[r] \notin Claimable

\* Requests still on the wire or sent by the provider, whose attempt did not
\* end in doubt.
Open(r) == (wire[r] \union inbox[r]) \ inDoubt[r]

\* There is at most one such request and, until the intent is `sent`, it is the
\* one the handler is waiting for.
OneOpen(r) ==
  /\ \A m, n \in Open(r) : m = n
  /\ intent[r] # "sent" =>
       \A n \in Open(r) : n = attempt[r] /\ step[r] \in {"waiting", "confirming"}

\* A handler works on a numbered attempt.
Dispatched == \A r \in Runs : step[r] # "idle" => attempt[r] \in Attempts

\* The inductive invariant.
IInv ==
  /\ TypeOK /\ Dispatched
  /\ \A r \in Runs : HandlerKnows(r) /\ RowsKnow(r) /\ CrashSettles(r) /\ OneOpen(r)

\* The actions of a run, for splitting Next.
StepOf(r) ==
  \/ Claim(r) \/ Interrupted(r) \/ WriteOutcome(r) \/ WorkerDies(r)
  \/ SweepRunningOrphan(r) \/ SweepDlqRetrying(r) \/ Cancel(r)
  \/ HandlerStep(r)
  \/ \E n \in Attempts : ProviderAccepts(r, n) \/ ProviderRefuses(r, n)

\* The state a run is created in satisfies the invariant.
LEMMA InitInv == Init => IInv
  BY SendAssumption DEF Init, IInv, TypeOK, Dispatched, HandlerKnows, RowsKnow, CrashSettles,
     OneOpen, Open, Attempts, Claimable, Terminal, InHandler, Outcomes

\* Every step of a run, of its worker or of the provider keeps the types.
LEMMA TypeStep ==
  ASSUME TypeOK, Dispatched, NEW r \in Runs, StepOf(r)
  PROVE  TypeOK' /\ Dispatched'
<1> USE SendAssumption DEF TypeOK, Dispatched, Attempts, Claimable, Terminal, InHandler,
                           Outcomes, GoTo
<1>1. CASE Claim(r)
  BY <1>1 DEF Claim
<1>2. CASE Interrupted(r)
  BY <1>2 DEF Interrupted, LeaveInDoubt
<1>3. CASE WriteOutcome(r)
  BY <1>3 DEF WriteOutcome
<1>4. CASE WorkerDies(r)
  BY <1>4 DEF WorkerDies, LeaveInDoubt
<1>5. CASE SweepRunningOrphan(r) \/ SweepDlqRetrying(r) \/ Cancel(r)
  BY <1>5 DEF SweepRunningOrphan, SweepDlqRetrying, Cancel
<1>6. CASE HandlerStep(r)
  BY <1>6 DEF HandlerStep, PreflightFails, PreflightPasses, Begin, Post, HearAccepted,
              HearRefused, HearServerError, LeaveInDoubt, MarkSent, Return
<1>7. CASE \E n \in Attempts : ProviderAccepts(r, n) \/ ProviderRefuses(r, n)
  BY <1>7 DEF ProviderAccepts, ProviderRefuses
<1> QED
  BY <1>1, <1>2, <1>3, <1>4, <1>5, <1>6, <1>7 DEF StepOf

\* ... and what handler, rows and crashes know of one another.
LEMMA KnowledgeStep ==
  ASSUME IInv, NEW r \in Runs, StepOf(r), NEW q \in Runs
  PROVE  HandlerKnows(q)' /\ RowsKnow(q)' /\ CrashSettles(q)'
<1> USE DEF IInv, TypeOK, HandlerKnows, RowsKnow, CrashSettles, Claimable, Terminal, GoTo
<1>1. CASE Claim(r)
  BY <1>1 DEF Claim
<1>2. CASE Interrupted(r)
  BY <1>2 DEF Interrupted, InHandler
<1>3. CASE WriteOutcome(r)
  BY <1>3 DEF WriteOutcome, Outcomes
<1>4. CASE WorkerDies(r)
  BY <1>4 DEF WorkerDies
<1>5. CASE SweepRunningOrphan(r) \/ SweepDlqRetrying(r) \/ Cancel(r)
  BY <1>5 DEF SweepRunningOrphan, SweepDlqRetrying, Cancel
<1>6. CASE PreflightFails(r) \/ PreflightPasses(r) \/ Post(r) \/ HearAccepted(r)
           \/ HearRefused(r) \/ HearServerError(r) \/ MarkSent(r) \/ Return(r)
  BY <1>6 DEF PreflightFails, PreflightPasses, Post, HearAccepted, HearRefused, HearServerError,
              MarkSent, Return
<1>7. CASE Begin(r)
  BY <1>7 DEF Begin, DecideSend
<1>8. CASE \E n \in Attempts : ProviderAccepts(r, n) \/ ProviderRefuses(r, n)
  BY <1>8 DEF ProviderAccepts, ProviderRefuses
<1> QED
  BY <1>1, <1>2, <1>3, <1>4, <1>5, <1>6, <1>7, <1>8 DEF StepOf, HandlerStep

\* ... and the uniqueness of the open request: a new one leaves only when the
\* intent is not `sent` and every earlier one is in doubt or refused.
LEMMA OpenStep ==
  ASSUME IInv, NEW r \in Runs, StepOf(r), NEW q \in Runs
  PROVE  OneOpen(q)'
<1> USE DEF IInv, TypeOK, OneOpen, Open, GoTo
<1>1. CASE Claim(r)
  BY <1>1 DEF Claim
<1>2. CASE Interrupted(r)
  BY <1>2 DEF Interrupted, LeaveInDoubt
<1>3. CASE WriteOutcome(r)
  BY <1>3 DEF WriteOutcome, Outcomes
<1>4. CASE WorkerDies(r)
  BY <1>4 DEF WorkerDies, LeaveInDoubt
<1>5. CASE SweepRunningOrphan(r) \/ SweepDlqRetrying(r) \/ Cancel(r)
  BY <1>5 DEF SweepRunningOrphan, SweepDlqRetrying, Cancel
<1>6. CASE PreflightFails(r) \/ PreflightPasses(r)
  BY <1>6 DEF PreflightFails, PreflightPasses
<1>7. CASE Begin(r)
  BY <1>7 DEF Begin, DecideSend
<1>8. CASE Post(r)
  BY <1>8 DEF Post, HandlerKnows
<1>9. CASE HearAccepted(r) \/ HearRefused(r)
  BY <1>9 DEF HearAccepted, HearRefused
<1>10. CASE MarkSent(r) \/ Return(r)
  BY <1>10 DEF MarkSent, Return
<1>11. CASE HearServerError(r)
  BY <1>11 DEF HearServerError, LeaveInDoubt
<1>12. CASE \E n \in Attempts : ProviderAccepts(r, n) \/ ProviderRefuses(r, n)
  BY <1>12 DEF ProviderAccepts, ProviderRefuses
<1> QED
  BY <1>1, <1>2, <1>3, <1>4, <1>5, <1>6, <1>7, <1>8, <1>9, <1>10, <1>11, <1>12
  DEF StepOf, HandlerStep

\* The invariant is inductive.
LEMMA NextInv == IInv /\ [Next]_vars => IInv'
<1> SUFFICES ASSUME IInv, [Next]_vars PROVE IInv'
  OBVIOUS
<1>1. CASE UNCHANGED vars
  BY <1>1 DEF vars, IInv, TypeOK, Dispatched, HandlerKnows, RowsKnow, CrashSettles, OneOpen, Open
<1>2. CASE Next
  <2>1. PICK r \in Runs : StepOf(r)
    BY <1>2 DEF Next, StepOf
  <2>2. TypeOK' /\ Dispatched'
    BY <2>1, TypeStep DEF IInv
  <2>3. \A q \in Runs : HandlerKnows(q)' /\ RowsKnow(q)' /\ CrashSettles(q)'
    BY <2>1, KnowledgeStep
  <2>4. \A q \in Runs : OneOpen(q)'
    BY <2>1, OpenStep
  <2> QED
    BY <2>2, <2>3, <2>4 DEF IInv
<1> QED
  BY <1>1, <1>2

\* The invariant holds throughout.
THEOREM SendInvariance == Spec => []IInv
  BY InitInv, NextInv, PTL DEF Spec

\* Every variable of the send protocol keeps its type.
THEOREM SendTypeCorrect == Spec => []TypeOK
<1>1. IInv => TypeOK
  BY DEF IInv
<1> QED
  BY <1>1, SendInvariance, PTL

\* A run reported SUCCEEDED has its message sent and its intent says so.
THEOREM SuccessIsSent == Spec => []SuccessMeansSent
<1>1. IInv => SuccessMeansSent
  BY DEF IInv, RowsKnow, SuccessMeansSent
<1> QED
  BY <1>1, SendInvariance, PTL

\* Every copy beyond the first is owed to an attempt that ended in doubt: its
\* answer lost, not recorded, or a 5xx.
THEOREM DuplicatesAccounted == Spec => []DuplicatesOwedToDoubt
<1>1. ASSUME IInv, NEW r \in Runs
      PROVE  Cardinality(inbox[r]) <= Cardinality(inDoubt[r]) + 1
  <2>1. inbox[r] \subseteq Attempts /\ inDoubt[r] \subseteq Attempts
    BY <1>1 DEF IInv, TypeOK
  <2>2. IsFiniteSet(Attempts)
    BY SendAssumption, FS_Interval DEF Attempts
  <2>3. IsFiniteSet(inDoubt[r])
    BY <2>1, <2>2, FS_Subset
  <2>4. CASE inbox[r] \subseteq inDoubt[r]
    <3>1. Cardinality(inbox[r]) <= Cardinality(inDoubt[r])
      BY <2>3, <2>4, FS_Subset
    <3>2. Cardinality(inbox[r]) \in Nat /\ Cardinality(inDoubt[r]) \in Nat
      BY <2>1, <2>2, FS_Subset, FS_CardinalityType
    <3> QED
      BY <3>1, <3>2
  <2>5. CASE ~(inbox[r] \subseteq inDoubt[r])
    <3>1. PICK n \in inbox[r] : n \notin inDoubt[r]
      BY <2>5
    <3>2. inbox[r] \subseteq inDoubt[r] \union {n}
      BY <1>1, <3>1 DEF IInv, OneOpen, Open
    <3>3. /\ IsFiniteSet(inDoubt[r] \union {n})
          /\ Cardinality(inDoubt[r] \union {n}) = Cardinality(inDoubt[r]) + 1
      BY <2>3, <3>1, FS_AddElement
    <3> QED
      BY <3>2, <3>3, FS_Subset
  <2> QED
    BY <2>4, <2>5
<1>2. IInv => DuplicatesOwedToDoubt
  BY <1>1 DEF DuplicatesOwedToDoubt
<1> QED
  BY <1>2, SendInvariance, PTL

\* Once the intent is `sent` no further request leaves.
THEOREM SentIsFinal == Spec => SentBlocksPost
<1>1. IInv /\ [Next]_vars => [\A r \in Runs : intent[r] = "sent" => posted'[r] = posted[r]]_vars
  <2> SUFFICES ASSUME IInv, Next, NEW q \in Runs, intent[q] = "sent"
               PROVE  posted'[q] = posted[q]
    OBVIOUS
  <2>1. PICK r \in Runs : StepOf(r)
    BY DEF Next, StepOf
  <2>2. CASE Post(r)
    BY <2>2 DEF Post, IInv, TypeOK, HandlerKnows
  <2>3. CASE ~Post(r)
    BY <2>1, <2>3 DEF StepOf, HandlerStep, Claim, Interrupted, WriteOutcome, WorkerDies,
       SweepRunningOrphan, SweepDlqRetrying, Cancel, PreflightFails, PreflightPasses, Begin,
       HearAccepted, HearRefused, HearServerError, MarkSent, Return, ProviderAccepts, ProviderRefuses
  <2> QED
    BY <2>2, <2>3
<1> QED
  BY <1>1, SendInvariance, PTL DEF Spec, SentBlocksPost

\* A run whose worker died in the handler posts no further request.
THEOREM CrashIsFinal == Spec => CrashNotResent
<1>1. IInv /\ [Next]_vars => [\A r \in crashed : posted'[r] = posted[r]]_vars
  <2> SUFFICES ASSUME IInv, Next, NEW q \in crashed
               PROVE  posted'[q] = posted[q]
    OBVIOUS
  <2>1. PICK r \in Runs : StepOf(r)
    BY DEF Next, StepOf
  <2>2. CASE Post(r)
    BY <2>2 DEF Post, IInv, TypeOK, CrashSettles
  <2>3. CASE ~Post(r)
    BY <2>1, <2>3 DEF StepOf, HandlerStep, Claim, Interrupted, WriteOutcome, WorkerDies,
       SweepRunningOrphan, SweepDlqRetrying, Cancel, PreflightFails, PreflightPasses, Begin,
       HearAccepted, HearRefused, HearServerError, MarkSent, Return, ProviderAccepts, ProviderRefuses
  <2> QED
    BY <2>2, <2>3
<1> QED
  BY <1>1, SendInvariance, PTL DEF Spec, CrashNotResent
=============================================================================
