--------------------------- MODULE JobViewsProofs ---------------------------
(***************************************************************************)
(* Proofs about JobViews, for any jobs, triggers, consumers and page size. *)
(***************************************************************************)
EXTENDS JobViews, ContinuationProofs, SequenceTheorems

(* Sequences without repetition *)

\* The members of a sequence.
LEMMA Members ==
  ASSUME NEW s, NEW x
  PROVE  x \in ToSet(s) <=> \E i \in DOMAIN s : s[i] = x
  BY DEF ToSet

\* Adding a new member at the end.
LEMMA AppendNew ==
  ASSUME NEW S, NEW s \in Seq(S), IsInjective(s), NEW x \in S, x \notin ToSet(s)
  PROVE  /\ Append(s, x) \in Seq(S) /\ IsInjective(Append(s, x))
         /\ ToSet(Append(s, x)) = ToSet(s) \union {x}
<1> DEFINE t == Append(s, x)
<1>1. /\ t \in Seq(S) /\ Len(t) = Len(s) + 1 /\ DOMAIN t = 1 .. Len(s) + 1
      /\ DOMAIN s = 1 .. Len(s) /\ Len(s) \in Nat
      /\ t[Len(s) + 1] = x /\ \A i \in 1 .. Len(s) : t[i] = s[i]
  BY AppendProperties, LenProperties
<1> HIDE DEF t
<1>2. \A i \in 1 .. Len(s) : s[i] # x
  BY <1>1, Members
<1>3. IsInjective(t)
  BY <1>1, <1>2 DEF IsInjective
<1>4. ASSUME NEW y PROVE y \in ToSet(t) <=> y \in ToSet(s) \union {x}
  <2>1. y \in ToSet(t) <=> \E i \in 1 .. Len(s) + 1 : t[i] = y
    BY <1>1, Members
  <2>2. y \in ToSet(s) <=> \E i \in 1 .. Len(s) : s[i] = y
    BY <1>1, Members
  <2>3. \A i \in 1 .. Len(s) + 1 : i \in 1 .. Len(s) \/ i = Len(s) + 1
    BY <1>1
  <2>4. \A i \in 1 .. Len(s) : i \in 1 .. Len(s) + 1
    BY <1>1
  <2>5. Len(s) + 1 \in 1 .. Len(s) + 1
    BY <1>1
  <2> QED
    BY <1>1, <2>1, <2>2, <2>3, <2>4, <2>5
<1>5. ToSet(t) = ToSet(s) \union {x}
  BY <1>4
<1> QED
  BY <1>1, <1>3, <1>5 DEF t

\* The elements of InsertAt.
LEMMA InsertedElements ==
  ASSUME NEW S, NEW s \in Seq(S), NEW x \in S, NEW i \in 1 .. Len(s) + 1
  PROVE  /\ InsertAt(s, i, x) \in Seq(S) /\ Len(InsertAt(s, i, x)) = Len(s) + 1
         /\ \A n \in 1 .. i - 1 : InsertAt(s, i, x)[n] = s[n]
         /\ InsertAt(s, i, x)[i] = x
         /\ \A n \in i + 1 .. Len(s) + 1 : InsertAt(s, i, x)[n] = s[n - 1]
<1> DEFINE a == SubSeq(s, 1, i - 1)
           b == SubSeq(s, i, Len(s))
<1>0. Len(s) \in Nat /\ i \in Nat
  BY LenProperties
<1>1. a \in Seq(S) /\ Len(a) = i - 1 /\ \A n \in 1 .. i - 1 : a[n] = s[n]
  BY <1>0, SubSeqProperties
<1>2. b \in Seq(S) /\ Len(b) = Len(s) + 1 - i /\ \A n \in 1 .. Len(s) + 1 - i : b[n] = s[i + n - 1]
  BY <1>0, SubSeqProperties
<1> HIDE DEF a, b
<1>3. /\ a \o <<x>> \in Seq(S) /\ Len(a \o <<x>>) = i
      /\ \A n \in 1 .. i : (a \o <<x>>)[n] = IF n < i THEN s[n] ELSE x
  <2>1. <<x>> \in Seq(S) /\ Len(<<x>>) = 1 /\ <<x>>[1] = x
    OBVIOUS
  <2>2. a \o <<x>> \in Seq(S) /\ Len(a \o <<x>>) = i
    BY <1>0, <1>1, <2>1
  <2>3. ASSUME NEW n \in 1 .. i PROVE (a \o <<x>>)[n] = IF n < i THEN s[n] ELSE x
    BY <1>0, <1>1, <2>1
  <2> QED
    BY <2>2, <2>3
<1> DEFINE p == a \o <<x>>
<1> HIDE DEF p
<1>4. p \o b \in Seq(S) /\ Len(p \o b) = Len(s) + 1
  <2>1. p \in Seq(S) /\ Len(p) = i
    BY <1>3 DEF p
  <2>2. p \o b \in Seq(S) /\ Len(p \o b) = Len(p) + Len(b)
    BY <1>2, <2>1, ConcatProperties
  <2> QED
    BY <1>0, <1>2, <2>1, <2>2
<1>5. ASSUME NEW n \in 1 .. Len(s) + 1
      PROVE  (p \o b)[n] = IF n < i THEN s[n] ELSE IF n = i THEN x ELSE s[n - 1]
  <2>1. p \in Seq(S) /\ Len(p) = i /\ Len(b) = Len(s) + 1 - i /\ b \in Seq(S)
    BY <1>2, <1>3 DEF p
  <2>2. CASE n <= i
    <3>1. (p \o b)[n] = p[n]
      BY <1>0, <2>1, <2>2, ConcatProperties
    <3> QED
      BY <1>0, <1>3, <2>2, <3>1 DEF p
  <2>3. CASE n > i
    <3>1. (p \o b)[n] = b[n - i]
      BY <1>0, <2>1, <2>3, ConcatProperties
    <3>2. b[n - i] = s[i + (n - i) - 1] /\ i + (n - i) - 1 = n - 1
      BY <1>0, <1>2, <2>3
    <3> QED
      BY <1>0, <2>3, <3>1, <3>2
  <2>4. n <= i \/ n > i
    BY <1>0
  <2> QED
    BY <2>2, <2>3, <2>4
<1>6. /\ \A n \in 1 .. i - 1 : (p \o b)[n] = s[n]
      /\ (p \o b)[i] = x
      /\ \A n \in i + 1 .. Len(s) + 1 : (p \o b)[n] = s[n - 1]
  <2>1. ASSUME NEW n \in 1 .. i - 1 PROVE (p \o b)[n] = s[n]
    <3>1. n \in 1 .. Len(s) + 1 /\ n < i
      BY <1>0
    <3> QED
      BY <1>5, <3>1
  <2>2. (p \o b)[i] = x
    <3>1. (p \o b)[i] = IF i < i THEN s[i] ELSE IF i = i THEN x ELSE s[i - 1]
      BY <1>5
    <3>2. ~(i < i)
      BY <1>0
    <3> QED
      BY <3>1, <3>2
  <2>3. ASSUME NEW n \in i + 1 .. Len(s) + 1 PROVE (p \o b)[n] = s[n - 1]
    <3>1. n \in 1 .. Len(s) + 1 /\ ~(n < i) /\ n # i
      BY <1>0
    <3> QED
      BY <1>5, <3>1
  <2> QED
    BY <2>1, <2>2, <2>3
<1>7. p \o b = InsertAt(s, i, x)
  BY DEF InsertAt, a, b, p
<1> QED
  BY <1>4, <1>6, <1>7

\* A new member is inserted anywhere.
LEMMA InsertNew ==
  ASSUME NEW S, NEW s \in Seq(S), IsInjective(s), NEW x \in S, x \notin ToSet(s),
         NEW i \in 1 .. Len(s) + 1
  PROVE  /\ InsertAt(s, i, x) \in Seq(S) /\ IsInjective(InsertAt(s, i, x))
         /\ ToSet(InsertAt(s, i, x)) = ToSet(s) \union {x}
<1> DEFINE t == InsertAt(s, i, x)
<1>1. /\ t \in Seq(S) /\ Len(t) = Len(s) + 1
      /\ \A n \in 1 .. i - 1 : t[n] = s[n]
      /\ t[i] = x
      /\ \A n \in i + 1 .. Len(s) + 1 : t[n] = s[n - 1]
  BY InsertedElements
<1> HIDE DEF t
<1>2. DOMAIN t = 1 .. Len(s) + 1 /\ DOMAIN s = 1 .. Len(s) /\ Len(s) \in Nat /\ i \in Nat
  <2>1. DOMAIN s = 1 .. Len(s) /\ Len(s) \in Nat
    BY LenProperties
  <2>2. DOMAIN t = 1 .. Len(t)
    BY <1>1, LenProperties
  <2> QED
    BY <1>1, <2>1, <2>2
<1>3. \A n \in 1 .. Len(s) : s[n] # x
  BY <1>2, Members
<1>4. IsInjective(t)
  <2> SUFFICES ASSUME NEW m \in 1 .. Len(s) + 1, NEW n \in 1 .. Len(s) + 1, t[m] = t[n], m < n
               PROVE  FALSE
    BY <1>2 DEF IsInjective
  <2>1. \A u, v \in 1 .. Len(s) : s[u] = s[v] => u = v
    BY <1>2 DEF IsInjective
  <2>2. m < i => m \in 1 .. Len(s) /\ t[m] = s[m]
    BY <1>1, <1>2
  <2>3. m > i => m - 1 \in 1 .. Len(s) /\ t[m] = s[m - 1]
    BY <1>1, <1>2
  <2>4. n < i => n \in 1 .. Len(s) /\ t[n] = s[n]
    BY <1>1, <1>2
  <2>5. n > i => n - 1 \in 1 .. Len(s) /\ t[n] = s[n - 1]
    BY <1>1, <1>2
  <2>6. (m = i => t[m] = x) /\ (n = i => t[n] = x)
    BY <1>1, <1>2
  <2> QED
    BY <1>2, <1>3, <2>1, <2>2, <2>3, <2>4, <2>5, <2>6
<1>5. ASSUME NEW y PROVE y \in ToSet(t) <=> y \in ToSet(s) \union {x}
  <2>1. y \in ToSet(t) <=> \E n \in 1 .. Len(s) + 1 : t[n] = y
    BY <1>2, Members
  <2>2. y \in ToSet(s) <=> \E n \in 1 .. Len(s) : s[n] = y
    BY <1>2, Members
  <2>3. ASSUME NEW n \in 1 .. Len(s) + 1, t[n] = y PROVE y \in ToSet(s) \union {x}
    <3>1. n < i => n \in 1 .. Len(s) /\ t[n] = s[n]
      BY <1>1, <1>2
    <3>2. n > i => n - 1 \in 1 .. Len(s) /\ t[n] = s[n - 1]
      BY <1>1, <1>2
    <3>3. n = i => t[n] = x
      BY <1>1, <1>2
    <3>4. n < i \/ n > i \/ n = i
      BY <1>2
    <3> QED
      BY <2>2, <2>3, <3>1, <3>2, <3>3, <3>4
  <2>4. ASSUME NEW n \in 1 .. Len(s), s[n] = y PROVE y \in ToSet(t)
    <3>1. CASE n < i
      <4>1. n \in 1 .. Len(s) + 1 /\ t[n] = s[n]
        BY <1>1, <1>2, <3>1
      <4> QED
        BY <2>1, <2>4, <4>1
    <3>2. CASE n >= i
      <4>1. n + 1 \in 1 .. Len(s) + 1 /\ n + 1 > i /\ (n + 1) - 1 = n
        BY <1>2, <3>2
      <4>2. t[n + 1] = s[n]
        BY <1>1, <1>2, <4>1
      <4> QED
        BY <2>1, <2>4, <4>1, <4>2
    <3>3. n < i \/ n >= i
      BY <1>2
    <3> QED
      BY <3>1, <3>2, <3>3
  <2>5. x \in ToSet(t)
    <3>1. i \in DOMAIN t /\ t[i] = x
      BY <1>1, <1>2
    <3> QED
      BY <3>1, Members
  <2> QED
    BY <2>1, <2>2, <2>3, <2>4, <2>5
<1>6. ToSet(t) = ToSet(s) \union {x}
  BY <1>5
<1> QED
  BY <1>1, <1>4, <1>6 DEF t

\* The elements of RemoveAt.
LEMMA RemovedElements ==
  ASSUME NEW S, NEW s \in Seq(S), NEW i \in 1 .. Len(s)
  PROVE  /\ RemoveAt(s, i) \in Seq(S) /\ Len(RemoveAt(s, i)) = Len(s) - 1
         /\ \A n \in 1 .. Len(s) - 1 :
              RemoveAt(s, i)[n] = IF n < i THEN s[n] ELSE s[n + 1]
<1> DEFINE a == SubSeq(s, 1, i - 1)
           b == SubSeq(s, i + 1, Len(s))
<1>0. Len(s) \in Nat /\ i \in Nat
  BY LenProperties
<1>1. a \in Seq(S) /\ Len(a) = i - 1 /\ \A n \in 1 .. i - 1 : a[n] = s[n]
  BY <1>0, SubSeqProperties
<1>2. b \in Seq(S) /\ Len(b) = Len(s) - i /\ \A n \in 1 .. Len(s) - i : b[n] = s[i + n]
  BY <1>0, SubSeqProperties
<1> HIDE DEF a, b
<1>3. a \o b \in Seq(S) /\ Len(a \o b) = Len(s) - 1
  <2>1. a \o b \in Seq(S) /\ Len(a \o b) = Len(a) + Len(b)
    BY <1>1, <1>2, ConcatProperties
  <2> QED
    BY <1>0, <1>1, <1>2, <2>1
<1>4. ASSUME NEW n \in 1 .. Len(s) - 1
      PROVE  (a \o b)[n] = IF n < i THEN s[n] ELSE s[n + 1]
  <2>1. CASE n < i
    <3>1. (a \o b)[n] = a[n]
      BY <1>0, <1>1, <1>2, <2>1, ConcatProperties
    <3> QED
      BY <1>0, <1>1, <2>1, <3>1
  <2>2. CASE n >= i
    <3>1. (a \o b)[n] = b[n - (i - 1)]
      BY <1>0, <1>1, <1>2, <2>2, ConcatProperties
    <3>2. n - (i - 1) \in 1 .. Len(s) - i /\ i + (n - (i - 1)) = n + 1
      BY <1>0, <2>2
    <3>3. b[n - (i - 1)] = s[n + 1]
      BY <1>2, <3>2
    <3> QED
      BY <1>0, <2>2, <3>1, <3>3
  <2>3. n < i \/ n >= i
    BY <1>0
  <2> QED
    BY <2>1, <2>2, <2>3
<1> QED
  BY <1>3, <1>4 DEF RemoveAt, a, b

\* A member that is moved to the end.
LEMMA MoveToEnd ==
  ASSUME NEW S, NEW s \in Seq(S), IsInjective(s), NEW x \in S,
         NEW i \in DOMAIN s, s[i] = x
  PROVE  /\ Append(RemoveAt(s, i), x) \in Seq(S) /\ IsInjective(Append(RemoveAt(s, i), x))
         /\ ToSet(Append(RemoveAt(s, i), x)) = ToSet(s)
<1> DEFINE t == RemoveAt(s, i)
<1>1. DOMAIN s = 1 .. Len(s) /\ Len(s) \in Nat
  BY LenProperties
<1>2. i \in 1 .. Len(s) /\ i \in Nat
  BY <1>1
<1>3. /\ t \in Seq(S) /\ Len(t) = Len(s) - 1
      /\ \A n \in 1 .. Len(s) - 1 : t[n] = IF n < i THEN s[n] ELSE s[n + 1]
  BY <1>2, RemovedElements
<1> HIDE DEF t
<1>4. DOMAIN t = 1 .. Len(s) - 1
  BY <1>3, LenProperties
<1>5. \A u, v \in 1 .. Len(s) : s[u] = s[v] => u = v
  BY <1>1 DEF IsInjective
<1>6. IsInjective(t)
  <2> SUFFICES ASSUME NEW m \in 1 .. Len(s) - 1, NEW n \in 1 .. Len(s) - 1, t[m] = t[n], m < n
               PROVE  FALSE
    BY <1>1, <1>4 DEF IsInjective
  <2>1. m < i => m \in 1 .. Len(s) /\ t[m] = s[m]
    BY <1>1, <1>3
  <2>2. m >= i => m + 1 \in 1 .. Len(s) /\ t[m] = s[m + 1]
    BY <1>1, <1>2, <1>3
  <2>3. n < i => n \in 1 .. Len(s) /\ t[n] = s[n]
    BY <1>1, <1>3
  <2>4. n >= i => n + 1 \in 1 .. Len(s) /\ t[n] = s[n + 1]
    BY <1>1, <1>2, <1>3
  <2> QED
    BY <1>1, <1>2, <1>5, <2>1, <2>2, <2>3, <2>4
<1>7. ASSUME NEW y PROVE y \in ToSet(t) <=> y \in ToSet(s) \ {x}
  <2>1. y \in ToSet(t) <=> \E n \in 1 .. Len(s) - 1 : t[n] = y
    BY <1>4, Members
  <2>2. y \in ToSet(s) <=> \E n \in 1 .. Len(s) : s[n] = y
    BY <1>1, Members
  <2>3. ASSUME NEW n \in 1 .. Len(s) - 1, t[n] = y PROVE y \in ToSet(s) \ {x}
    <3>1. n < i => n \in 1 .. Len(s) /\ t[n] = s[n] /\ n # i
      BY <1>1, <1>2, <1>3
    <3>2. n >= i => n + 1 \in 1 .. Len(s) /\ t[n] = s[n + 1] /\ n + 1 # i
      BY <1>1, <1>2, <1>3
    <3>3. n < i \/ n >= i
      BY <1>1, <1>2
    <3>4. PICK m \in 1 .. Len(s) : m # i /\ s[m] = y
      BY <2>3, <3>1, <3>2, <3>3
    <3> QED
      BY <1>2, <1>5, <2>2, <3>4
  <2>4. ASSUME NEW n \in 1 .. Len(s), s[n] = y, y # x PROVE y \in ToSet(t)
    <3>1. CASE n < i
      <4>1. n \in 1 .. Len(s) - 1 /\ t[n] = s[n]
        BY <1>1, <1>2, <1>3, <3>1
      <4> QED
        BY <2>1, <2>4, <4>1
    <3>2. CASE n > i
      <4>1. n - 1 \in 1 .. Len(s) - 1 /\ ~(n - 1 < i) /\ (n - 1) + 1 = n
        BY <1>1, <1>2, <3>2
      <4>2. t[n - 1] = s[n]
        BY <1>3, <4>1
      <4> QED
        BY <2>1, <2>4, <4>1, <4>2
    <3>3. n < i \/ n > i
      BY <1>1, <1>2, <2>4
    <3> QED
      BY <3>1, <3>2, <3>3
  <2> QED
    BY <2>1, <2>2, <2>3, <2>4
<1>8. ToSet(t) = ToSet(s) \ {x} /\ x \in ToSet(s)
  BY <1>7, Members
<1>9. /\ Append(t, x) \in Seq(S) /\ IsInjective(Append(t, x))
      /\ ToSet(Append(t, x)) = ToSet(t) \union {x}
  <2>1. x \notin ToSet(t)
    BY <1>8
  <2> QED
    BY <1>3, <1>6, <2>1, AppendNew
<1> QED
  BY <1>8, <1>9 DEF t

----------------------------------------------------------------------------
(* What the writers do to the rows *)

\* No job and no run disappears.
NothingLost ==
  /\ \A j \in Jobs : jobState[j] # "absent" => jobState'[j] # "absent"
  /\ \A j \in Jobs, k \in Ticks : runs[j][k] # "none" => runs'[j][k] # "none"

\* At most one run of a job is inserted or starts.
OneMoves == \A j \in Jobs : \A k1, k2 \in Moved(j) : k1 = k2

\* A step that leaves every run's row alone moves none.
LEMMA NoneMoves ==
  ASSUME UNCHANGED runs
  PROVE  OneMoves /\ \A j \in Jobs, k \in Ticks : runs[j][k] # "none" => runs'[j][k] # "none"
  BY DEF OneMoves, Moved

\* Every step of the writers is of this kind.
LEMMA WriterSteps ==
  ASSUME IInv, [Next]_vars
  PROVE  NothingLost /\ OneMoves
<1> USE ContinuationAssumption
<1>0. TypeOK /\ \A j \in Jobs : jobState[j] = "absent" => \A k \in Ticks : runs[j][k] = "none"
  BY DEF IInv, RowsInv, Existence
<1>1. ASSUME NEW x \in Jobs, CreateScheduled(x) \/ CreateValidates(x) \/ CreateCommits(x)
      PROVE  NothingLost /\ OneMoves
  <2>1. CASE UNCHANGED runs
    <3>1. \A j \in Jobs : jobState[j] # "absent" => jobState'[j] # "absent"
      BY <1>0, <1>1 DEF CreateScheduled, CreateValidates, CreateCommits, TypeOK
    <3> QED
      BY <2>1, <3>1, NoneMoves DEF NothingLost
  <2>2. CASE CreateScheduled(x)
    <3>1. \A j \in Jobs, k \in Ticks :
            runs'[j][k] = IF j = x THEN FirstRun(x)[k] ELSE runs[j][k]
      BY <1>0, <2>2 DEF CreateScheduled, TypeOK
    <3>2. \A k \in Ticks : k # 1 => FirstRun(x)[k] = "none"
      BY DEF FirstRun
    <3>3. \A k \in Ticks : FirstRun(x)[k] # "RUNNING"
      BY DEF FirstRun
    <3>4. NothingLost
      BY <1>0, <2>2, <3>1 DEF CreateScheduled, TypeOK, NothingLost
    <3>5. OneMoves
      BY <3>1, <3>2, <3>3 DEF OneMoves, Moved
    <3> QED
      BY <3>4, <3>5
  <2> QED
    BY <1>1, <2>1, <2>2 DEF CreateValidates, CreateCommits, runVars
<1>2. ASSUME NEW x \in Jobs, NEW y \in Ticks,
             \/ RunStarts(x, y) \/ RunRetries(x, y) \/ RunRecovered(x, y) \/ RunSwept(x, y)
             \/ \E s \in {"SUCCEEDED", "FAILED"} : RunEnds(x, y, s)
      PROVE  NothingLost /\ OneMoves
  <2>1. PICK v \in Executing \union Terminal : RunMoves(x, y, v) /\ RunKeeps(x, y, v)
    BY <1>2, RunShapes
  <2>2. \A j \in Jobs, k \in Ticks : runs'[j][k] = IF j = x /\ k = y THEN v ELSE runs[j][k]
    BY <1>0, <2>1 DEF RunMoves, TypeOK
  <2>3. v # "none"
    BY Statuses
  <2>4. NothingLost
    BY <1>0, <2>1, <2>2, <2>3 DEF RunMoves, TypeOK, NothingLost
  <2>5. OneMoves
    BY <2>2 DEF OneMoves, Moved
  <2> QED
    BY <2>4, <2>5
<1>3. ASSUME NEW c \in Consumers, ConsumerStep(c) \/ ConsumerAborts(c)
      PROVE  NothingLost /\ OneMoves
  <2>1. CASE ConsumerCommits(c)
    <3>1. SettledAfter(c) /\ InsertedAfter(c) /\ KeptAfter
      BY <2>1, CommitEffects
    <3>2. NothingLost
      BY <3>1 DEF SettledAfter, KeptAfter, NothingLost
    <3>3. \A j \in Jobs, k \in Ticks : k \in Moved(j) => <<j, k>> \in cSpawn[c]
      BY <3>1 DEF InsertedAfter, Moved
    <3>4. ASSUME NEW j \in Jobs, NEW k1 \in Moved(j), NEW k2 \in Moved(j) PROVE k1 = k2
      <4>1. k1 \in Ticks /\ k2 \in Ticks /\ <<j, k1>> \in cSpawn[c] /\ <<j, k2>> \in cSpawn[c]
        BY <3>3 DEF Moved
      <4>2. cEvent[c][1] \in Jobs
        <5>1. cEvent[c] \in Events
          BY <2>1 DEF IInv, TxInv, EventLoaded, ConsumerCommits
        <5> QED
          BY <5>1, EventShape
      <4>3. \A k \in Ticks : <<j, k>> \in cSpawn[c] =>
              \/ k = cEvent[c][2] + 1 /\ j \in Recurring
              \/ k = cEvent[c][2] /\ Trigger[j] = cEvent[c][1]
        BY DEF IInv, TxInv, SpawnsOne
      <4>4. j \in Recurring => Trigger[j] = NoJob
        OBVIOUS
      <4> QED
        BY <4>1, <4>2, <4>3, <4>4
    <3> QED
      BY <3>2, <3>4 DEF OneMoves
  <2>2. CASE ~ConsumerCommits(c)
    <3>1. UNCHANGED <<runs, jobState>>
      BY <1>3, <2>2 DEF ConsumerStep, ConsumerAborts, ConsumerLoads, ConsumerLists, ConsumerChecks,
                        runVars, jobVars
    <3> QED
      BY <3>1, NoneMoves DEF NothingLost
  <2> QED
    BY <2>1, <2>2
<1>4. ASSUME NEW x \in Jobs, CancelBegins(x) \/ CancelCommits(x)
      PROVE  NothingLost /\ OneMoves
  <2>1. CASE CancelBegins(x)
    BY <2>1, NoneMoves DEF CancelBegins, runVars, jobVars, NothingLost
  <2>2. CASE CancelCommits(x)
    <3>1. \A k \in Ticks : k \in flips[x] => runs[x][k] # "none"
      BY DEF IInv, RowsInv, CancelsHold
    <3>2. \A j \in Jobs, k \in Ticks :
            runs'[j][k] = IF j = x /\ k \in flips[x] THEN "CANCELLED" ELSE runs[j][k]
      BY <1>0, <2>2 DEF CancelCommits, TypeOK
    <3>3. \A j \in Jobs : jobState[j] # "absent" => jobState'[j] # "absent"
      BY <1>0, <2>2 DEF CancelCommits, TypeOK
    <3>4. NothingLost
      BY <3>2, <3>3 DEF NothingLost
    <3>5. OneMoves
      BY <3>1, <3>2 DEF OneMoves, Moved
    <3> QED
      BY <3>4, <3>5
  <2> QED
    BY <1>4, <2>1, <2>2
<1>5. CASE UNCHANGED vars
  BY <1>5, NoneMoves DEF vars, NothingLost
<1> QED
  BY <1>1, <1>2, <1>3, <1>4, <1>5 DEF Next, CreateStep, RunStep, CancelStep

\* A job's runs are ordered once each, and nothing else is.
Ordered(j) ==
  /\ recency[j] \in Seq(Ticks) /\ IsInjective(recency[j])
  /\ ToSet(recency[j]) = {k \in Ticks : runs[j][k] # "none"}

\* They are after a step of the writers, if they were before.
LEMMA OrderKept ==
  ASSUME NothingLost, OneMoves, NEW j \in Jobs, Ordered(j), recency'[j] \in Orders(j)
  PROVE  Ordered(j)'
<1> DEFINE s == recency[j]
           R == {k \in Ticks : runs[j][k] # "none"}
           Q == {k \in Ticks : runs'[j][k] # "none"}
<1>0. s \in Seq(Ticks) /\ IsInjective(s) /\ ToSet(s) = R
  BY DEF Ordered
<1>1. R \subseteq Q
  BY DEF NothingLost
<1>2. SUFFICES recency'[j] \in Seq(Ticks) /\ IsInjective(recency'[j]) /\ ToSet(recency'[j]) = Q
  BY <1>2 DEF Ordered
<1>3. CASE Moved(j) = {}
  <2>1. recency'[j] = s
    BY <1>3 DEF Orders
  <2>2. Q = R
    BY <1>1, <1>3 DEF Moved
  <2> QED
    BY <1>0, <2>1, <2>2
<1>4. ASSUME NEW k \in Moved(j) PROVE recency'[j] \in Seq(Ticks) /\ IsInjective(recency'[j]) /\ ToSet(recency'[j]) = Q
  <2>1. k \in Ticks /\ Moved(j) = {k}
    BY DEF OneMoves, Moved
  <2>2. recency'[j] \in Reordered(j, k, s)
    BY <2>1 DEF Orders
  <2>3. Q = R \union {k}
    BY <1>1, <2>1 DEF Moved
  <2> HIDE DEF s, Q
  <2>4. CASE runs[j][k] = "none"
    <3>1. k \notin ToSet(s)
      BY <1>0, <2>4
    <3>2. CASE recency'[j] = Append(s, k)
      BY <1>0, <2>1, <2>3, <3>1, <3>2, AppendNew
    <3>3. ASSUME NEW i \in 1 .. Len(s) + 1, recency'[j] = InsertAt(s, i, k)
          PROVE  recency'[j] \in Seq(Ticks) /\ IsInjective(recency'[j]) /\ ToSet(recency'[j]) = Q
      BY <1>0, <2>1, <2>3, <3>1, <3>3, InsertNew
    <3> QED
      BY <2>2, <2>4, <3>2, <3>3 DEF Reordered
  <2>5. CASE runs[j][k] # "none"
    <3>1. k \in R /\ Q = R
      BY <2>1, <2>3, <2>5
    <3>2. PICK i \in DOMAIN s : s[i] = k /\ recency'[j] = Append(RemoveAt(s, i), k)
      BY <2>2, <2>5 DEF Reordered
    <3> QED
      BY <1>0, <2>1, <3>1, <3>2, MoveToEnd
  <2> QED
    BY <2>4, <2>5
<1> QED
  BY <1>3, <1>4

----------------------------------------------------------------------------
(* Status *)

\* The newest run of a job.
LEMMA Newest ==
  ASSUME NEW j \in Jobs, Ordered(j)
  PROVE  /\ (recency[j] = <<>>) <=> (\A k \in Ticks : runs[j][k] = "none")
         /\ recency[j] # <<>> => /\ Last(recency[j]) \in Ticks
                                /\ runs[j][Last(recency[j])] # "none"
                                /\ LatestRun(runs[j], recency[j]) = runs[j][Last(recency[j])]
<1> DEFINE s == recency[j]
<1>1. s \in Seq(Ticks) /\ ToSet(s) = {k \in Ticks : runs[j][k] # "none"}
  BY DEF Ordered
<1>2. DOMAIN s = 1 .. Len(s) /\ Len(s) \in Nat
  BY <1>1, LenProperties
<1>3. (s = <<>>) <=> (Len(s) = 0)
  BY <1>1, EmptySeq
<1> HIDE DEF s
<1>4. ASSUME s # <<>> PROVE Last(s) \in ToSet(s)
  <2>1. Len(s) \in DOMAIN s
    BY <1>2, <1>3, <1>4
  <2> QED
    BY <2>1, Members DEF Last
<1>5. ASSUME s = <<>> PROVE ToSet(s) = {}
  <2>1. \A x : x \notin ToSet(s)
    BY <1>2, <1>3, <1>5, Members
  <2> QED
    BY <2>1
<1> QED
  BY <1>1, <1>4, <1>5 DEF s, LatestRun

\* The tables of status_mapping.py: every status is shown as an external one, and
\* is found under that one and under no other.
LEMMA Tables ==
  /\ \A st \in Executing \union Terminal \union {"QUEUED"} :
       /\ st # "none" /\ ToExternal[st] \in External
       /\ \A s \in External : st \in ToInternalSet[s] <=> ToExternal[st] = s
  /\ \A s \in External : "none" \notin ToInternalSet[s]
  /\ \A st \in JobState \ {"absent"} :
       /\ JobStateMapping[st] \in External
       /\ \A s \in External : st \in ToJobStates(s) <=> JobStateMapping[st] = s
<1>1. \A st \in Executing \union Terminal \union {"QUEUED"} :
        /\ st # "none" /\ ToExternal[st] \in External
        /\ \A s \in External : st \in ToInternalSet[s] <=> ToExternal[st] = s
  BY DEF Executing, Cancellable, Terminal, ToExternal, External, ToInternalSet
<1>2. \A s \in External : "none" \notin ToInternalSet[s]
  BY DEF External, ToInternalSet
<1>3. \A st \in JobState \ {"absent"} :
        /\ JobStateMapping[st] \in External
        /\ \A s \in External : st \in ToJobStates(s) <=> JobStateMapping[st] = s
  BY DEF JobState, External, ToJobStates, JobStateMapping
<1> QED
  BY <1>1, <1>2, <1>3

\* The status of a job, whose state another statement may have read.
LEMMA StatusShown ==
  ASSUME TypeOK, NEW j \in Jobs, Ordered(j), NEW st \in JobState \ {"absent"}
  PROVE  LET latest == LatestRun(runs[j], recency[j]) IN
         /\ latest \in Executing \union Terminal \union {"none"}
         /\ (latest = "none") <=> (recency[j] = <<>>)
         /\ ToExternalJobStatus(st, latest) \in External
         /\ recency[j] = <<>> => ToExternalJobStatus(st, latest) = JobStateMapping[st]
         /\ recency[j] # <<>> => ToExternalJobStatus(st, latest) = ToExternal[latest]
<1> DEFINE latest == LatestRun(runs[j], recency[j])
<1>1. /\ recency[j] = <<>> => latest = "none"
      /\ recency[j] # <<>> => latest \in Executing \union Terminal
  BY Newest DEF LatestRun, TypeOK
<1> HIDE DEF latest
<1>2. latest \in Executing \union Terminal => latest # "none" /\ ToExternal[latest] \in External
  BY Tables
<1>3. JobStateMapping[st] \in External
  BY Tables
<1>4. QED
  BY <1>1, <1>2, <1>3 DEF latest, ToExternalJobStatus

\* task.list's filter and the status it shows agree.
LEMMA FilterMatches ==
  ASSUME TypeOK, \A j \in Jobs : Ordered(j)
  PROVE  FoundUnderItsStatus
<1> SUFFICES ASSUME NEW j \in Jobs, NEW s \in External, jobState[j] # "absent",
                    NEW st \in StoredAs(LatestRun(runs[j], recency[j]))
             PROVE  MatchesFilter(jobState[j], st, s)
                      <=> ToExternalJobStatus(jobState[j], st) = s
  BY DEF FoundUnderItsStatus
<1>1. PICK latest : latest = LatestRun(runs[j], recency[j])
  OBVIOUS
<1>2. jobState[j] \in JobState \ {"absent"}
  BY DEF TypeOK
<1>3. latest \in Executing \union Terminal \union {"none"}
  BY <1>1, <1>2, StatusShown
<1>4. st \in Executing \union Terminal \union {"QUEUED"} \union {"none"}
  BY <1>1, <1>3 DEF StoredAs, Executing, Cancellable
<1>5. ToExternalJobStatus(jobState[j], st)
        = IF st # "none" THEN ToExternal[st] ELSE JobStateMapping[jobState[j]]
  BY DEF ToExternalJobStatus
<1>6. CASE st = "none"
  BY <1>2, <1>5, <1>6, Tables DEF MatchesFilter
<1>7. CASE st # "none"
  BY <1>4, <1>5, <1>7, Tables DEF MatchesFilter
<1> QED
  BY <1>6, <1>7

----------------------------------------------------------------------------
(* Pages *)

\* The place of i among the numbers C, the largest first.
Place(C, i) == Cardinality({k \in C : k >= i})

\* It is a number, and grows when C does.
LEMMA PlaceGrows ==
  ASSUME NEW D, IsFiniteSet(D), NEW C \in SUBSET D, NEW i
  PROVE  Place(C, i) \in Nat /\ Place(D, i) \in Nat /\ Place(C, i) <= Place(D, i)
<1> DEFINE A == {k \in C : k >= i}
           B == {k \in D : k >= i}
<1>1. A \in SUBSET B /\ B \in SUBSET D
  OBVIOUS
<1> HIDE DEF A, B
<1>2. IsFiniteSet(B)
  BY <1>1, FS_Subset
<1>3. IsFiniteSet(A) /\ Cardinality(A) <= Cardinality(B)
  BY <1>1, <1>2, FS_Subset
<1> QED
  BY <1>2, <1>3, FS_CardinalityType DEF Place, A, B

\* The members of C have the places 1, 2, ... up to their number.
LEMMA PlacesOnce ==
  ASSUME NEW C, C \subseteq Nat, IsFiniteSet(C)
  PROVE  [k \in C |-> Place(C, k)] \in Bijection(C, 1 .. Cardinality(C))
<1> DEFINE f == [k \in C |-> Place(C, k)]
<1>1. Cardinality(C) \in Nat
  BY FS_CardinalityType
<1>2. ASSUME NEW k \in C PROVE Place(C, k) \in 1 .. Cardinality(C)
  <2> DEFINE A == {x \in C : x >= k}
  <2>1. A \in SUBSET C /\ k \in A
    OBVIOUS
  <2> HIDE DEF A
  <2>2. IsFiniteSet(A) /\ Cardinality(A) <= Cardinality(C)
    BY <2>1, FS_Subset
  <2>3. Cardinality(A) \in Nat /\ Cardinality(A) # 0
    BY <2>1, <2>2, FS_CardinalityType, FS_EmptySet
  <2>4. Place(C, k) = Cardinality(A)
    BY DEF Place, A
  <2> QED
    BY <1>1, <2>2, <2>3, <2>4
<1>3. ASSUME NEW k \in C, NEW m \in C, k < m PROVE Place(C, m) < Place(C, k)
  <2> DEFINE A == {x \in C : x >= k}
             B == {x \in C : x >= m}
  <2>1. A \in SUBSET C /\ k \in A /\ B \in SUBSET (A \ {k})
    <3>1. \A x \in C : x >= m => x >= k /\ x # k
      BY <1>3
    <3>2. k >= k
      OBVIOUS
    <3> QED
      BY <3>1, <3>2
  <2>2. Place(C, k) = Cardinality(A) /\ Place(C, m) = Cardinality(B)
    BY DEF Place
  <2> HIDE DEF A, B
  <2>3. IsFiniteSet(A)
    BY <2>1, FS_Subset
  <2>4. IsFiniteSet(A \ {k}) /\ Cardinality(A \ {k}) = Cardinality(A) - 1
    BY <2>1, <2>3, FS_RemoveElement
  <2>5. Cardinality(B) <= Cardinality(A \ {k})
    BY <2>1, <2>4, FS_Subset
  <2>6. IsFiniteSet(B)
    BY <2>1, <2>4, FS_Subset
  <2>7. Cardinality(A) \in Nat /\ Cardinality(B) \in Nat
    BY <2>3, <2>6, FS_CardinalityType
  <2> QED
    BY <2>2, <2>4, <2>5, <2>7
<1>4. ASSUME NEW k \in C, NEW m \in C, Place(C, k) = Place(C, m) PROVE k = m
  <2>1. ~(k < m) /\ ~(m < k)
    BY <1>1, <1>2, <1>3, <1>4
  <2> QED
    BY <2>1
<1>5. f \in [C -> 1 .. Cardinality(C)]
  BY <1>2
<1>6. f \in Injection(C, 1 .. Cardinality(C))
  <2>1. IsInjective(f)
    BY <1>4 DEF IsInjective
  <2> QED
    BY <1>5, <2>1 DEF Injection
<1>7. IsFiniteSet(1 .. Cardinality(C)) /\ Cardinality(1 .. Cardinality(C)) = Cardinality(C)
  BY <1>1, FS_Interval
<1> HIDE DEF f
<1>8. f \in Surjection(C, 1 .. Cardinality(C))
  BY <1>6, <1>7, FS_Injection
<1> QED
  BY <1>6, <1>8 DEF Bijection, f

\* Between the places m and n, if a later one is taken, there are n - m members.
LEMMA PlacesBetween ==
  ASSUME NEW C, C \subseteq Nat, IsFiniteSet(C), NEW i \in C,
         NEW m \in Nat, NEW n \in Nat, m <= n, n < Place(C, i)
  PROVE  LET P == {k \in C : m < Place(C, k) /\ Place(C, k) <= n} IN
         IsFiniteSet(P) /\ Cardinality(P) = n - m
<1> DEFINE P == {k \in C : m < Place(C, k) /\ Place(C, k) <= n}
           f == [k \in C |-> Place(C, k)]
           g == [k \in P |-> Place(C, k)]
<1>1. f \in Bijection(C, 1 .. Cardinality(C)) /\ Cardinality(C) \in Nat
  BY PlacesOnce, FS_CardinalityType
<1>2. /\ \A k \in C : f[k] \in 1 .. Cardinality(C)
      /\ \A k, x \in C : f[k] = f[x] => k = x
      /\ \A y \in 1 .. Cardinality(C) : \E k \in C : f[k] = y
  BY <1>1 DEF Bijection, Injection, Surjection, IsInjective
<1>3. \A k \in C : f[k] = Place(C, k)
  OBVIOUS
<1>4. IsFiniteSet(P)
  BY FS_Subset
<1> HIDE DEF f
<1>5. g \in [P -> m + 1 .. n]
  <2>1. ASSUME NEW k \in P PROVE Place(C, k) \in m + 1 .. n
    BY <1>1, <1>2, <1>3
  <2> QED
    BY <2>1
<1>6. \A k, x \in P : g[k] = g[x] => k = x
  BY <1>2, <1>3
<1>7. ASSUME NEW y \in m + 1 .. n PROVE \E k \in P : g[k] = y
  <2>1. y \in 1 .. Cardinality(C)
    BY <1>1, <1>2, <1>3
  <2>2. PICK k \in C : Place(C, k) = y
    BY <1>2, <1>3, <2>1
  <2>3. k \in P
    BY <2>2
  <2> QED
    BY <2>2, <2>3
<1>8. DOMAIN g = P
  OBVIOUS
<1> HIDE DEF g, P
<1>9. g \in Bijection(P, m + 1 .. n)
  BY <1>5, <1>6, <1>7, <1>8 DEF Bijection, Injection, Surjection, IsInjective
<1>10. Cardinality(m + 1 .. n) = n - m
  <2>1. PICK a \in Int : a = m + 1
    OBVIOUS
  <2>2. Cardinality(a .. n) = IF a > n THEN 0 ELSE n - a + 1
    BY FS_Interval
  <2> QED
    BY <2>1, <2>2
<1>11. Cardinality(P) = Cardinality(m + 1 .. n)
  BY <1>4, <1>9, FS_Bijection DEF ExistsBijection
<1> QED
  BY <1>4, <1>10, <1>11 DEF P

\* The rows that are committed.
LEMMA CommittedRows ==
  ASSUME created \in Seq(Jobs)
  PROVE  /\ Committed \subseteq Nat /\ IsFiniteSet(Committed)
         /\ \A i \in Committed : i \in DOMAIN created /\ created[i] \in Jobs
         /\ \A i \in Committed : Rank(i) = Place(Committed, i) /\ Rank(i) \in Nat \ {0}
<1>1. DOMAIN created = 1 .. Len(created) /\ Len(created) \in Nat
  BY LenProperties
<1>2. Committed \in SUBSET (1 .. Len(created))
  BY <1>1 DEF Committed
<1>3. IsFiniteSet(1 .. Len(created))
  BY <1>1, FS_Interval
<1>4. IsFiniteSet(Committed)
  BY <1>2, <1>3, FS_Subset
<1>5. Committed \subseteq Nat
  BY <1>1, <1>2
<1>6. \A i \in Committed : i \in DOMAIN created /\ created[i] \in Jobs
  <2>1. \A i \in 1 .. Len(created) : created[i] \in Jobs
    BY ElementOfSeq
  <2> QED
    BY <1>1, <1>2, <2>1
<1>7. ASSUME NEW i \in Committed PROVE Rank(i) = Place(Committed, i) /\ Rank(i) \in Nat \ {0}
  <2>1. Rank(i) = Place(Committed, i)
    BY DEF Rank, Place
  <2>2. [k \in Committed |-> Place(Committed, k)] \in Bijection(Committed, 1 .. Cardinality(Committed))
    BY <1>4, <1>5, PlacesOnce
  <2>3. Cardinality(Committed) \in Nat
    BY <1>4, FS_CardinalityType
  <2>4. Place(Committed, i) \in 1 .. Cardinality(Committed)
    BY <2>2 DEF Bijection, Injection
  <2> QED
    BY <2>1, <2>3, <2>4
<1> QED
  BY <1>4, <1>5, <1>6, <1>7

\* The limits of a page.
LEMMA PageLimits ==
  ASSUME NEW n \in Nat \ {0}
  PROVE  /\ (n - 1) * PageSize \in Nat /\ n * PageSize \in Nat
         /\ n * PageSize = (n - 1) * PageSize + PageSize
         /\ (n + 1) - 1 = n /\ 0 * PageSize = 0 /\ 1 - 1 = 0
<1>1. PICK m \in Nat : n = m + 1
  <2>1. n - 1 \in Nat /\ n = (n - 1) + 1
    OBVIOUS
  <2> QED
    BY <2>1
<1>2. n - 1 = m /\ PageSize \in Nat
  BY <1>1, ViewAssumption
<1>3. m * PageSize \in Nat /\ (m + 1) * PageSize = m * PageSize + PageSize
  BY <1>2
<1>4. 0 * PageSize = 0
  BY <1>2
<1> QED
  BY <1>1, <1>2, <1>3, <1>4

\* A page that is not full is the last one.
LEMMA LastPage ==
  ASSUME created \in Seq(Jobs), IsInjective(created), NEW n \in Nat \ {0},
         Cardinality(Page(n)) < PageSize, NEW i \in Committed
  PROVE  Rank(i) <= n * PageSize
<1> USE ViewAssumption
<1> SUFFICES ASSUME Rank(i) > n * PageSize PROVE FALSE
  BY CommittedRows, PageLimits
<1> DEFINE lo == (n - 1) * PageSize
           hi == n * PageSize
           P == {k \in Committed : lo < Place(Committed, k) /\ Place(Committed, k) <= hi}
<1>1. /\ Committed \subseteq Nat /\ IsFiniteSet(Committed)
      /\ \A k \in Committed : Rank(k) = Place(Committed, k) /\ Rank(k) \in Nat
      /\ \A k \in Committed : k \in DOMAIN created
  BY CommittedRows
<1>2. lo \in Nat /\ hi \in Nat /\ hi = lo + PageSize /\ lo <= hi /\ PageSize \in Nat
  BY PageLimits
<1>3. hi < Place(Committed, i)
  BY <1>1, <1>2
<1>4. Page(n) = {created[k] : k \in P}
  BY <1>1 DEF Page
<1> HIDE DEF lo, hi
<1>5. IsFiniteSet(P) /\ Cardinality(P) = hi - lo
  BY <1>1, <1>2, <1>3, PlacesBetween, ZenonT(30)
<1>6. \A k \in P : k \in DOMAIN created
  BY <1>1
<1> HIDE DEF P
<1> DEFINE g == [k \in P |-> created[k]]
<1>7. g \in Bijection(P, Page(n))
  <2>1. \A k, x \in P : g[k] = g[x] => k = x
    BY <1>6 DEF IsInjective
  <2>2. g \in [P -> Page(n)] /\ \A y \in Page(n) : \E k \in P : g[k] = y
    BY <1>4
  <2>3. DOMAIN g = P
    OBVIOUS
  <2> HIDE DEF g
  <2> QED
    BY <2>1, <2>2, <2>3 DEF Bijection, Injection, Surjection, IsInjective
<1>8. Cardinality(Page(n)) = Cardinality(P)
  BY <1>5, <1>7, FS_Bijection DEF ExistsBijection
<1> QED
  BY <1>2, <1>5, <1>8

----------------------------------------------------------------------------
(* The inductive invariant *)

\* A status request under way has noted the status the job has, and knows what it
\* will answer if the job has no run by then.
StatusUnderWay ==
  req.kind = "status" =>
    /\ jobState[req.job] # "absent" /\ req.state # "absent"
    /\ JobStatus(req.job) \in req.seen
    /\ recency[req.job] = <<>> => JobStateMapping[req.state] \in req.seen

\* A job that a list under way has not got yet is beyond the pages it has read.
ListUnderWay ==
  req.kind = "list" =>
    /\ req.page # 0
    /\ \A j \in req.known \ req.got :
         \E i \in Committed : created[i] = j /\ req.page * PageSize < Rank(i)

\* The inductive invariant, beside that of Continuation.
ViewInv == ViewTypeOK /\ StatusUnderWay /\ StatusWasTrue /\ ListUnderWay /\ PagesComplete

\* The kinds of requests.
LEMMA RequestKinds ==
  ASSUME req \in {Idle} \union StatusRequests \union ListRequests
  PROVE  /\ (req.kind = "idle") <=> (req = Idle)
         /\ req.kind \in {"status", "answered"} => req \in StatusRequests
         /\ req.kind \in {"list", "listed"} => req \in ListRequests
         /\ req.kind \in {"idle", "status", "answered", "list", "listed"}
  BY DEF Idle, StatusRequests, ListRequests

\* The first state.
LEMMA ViewInitInv == ViewInit => ViewInv
<1> SUFFICES ASSUME ViewInit PROVE ViewInv
  OBVIOUS
<1> USE ContinuationAssumption, ViewAssumption
<1>0. IInv
  BY InitInv DEF ViewInit
<1>1. TypeOK
  BY <1>0 DEF IInv
<1>2. req = Idle /\ req.kind = "idle"
  BY DEF ViewInit, Idle
<1>3. /\ created \in Seq(Jobs) /\ IsInjective(created)
      /\ \A j \in Jobs : jobState[j] # "absent" => j \in ToSet(created)
  <2> DEFINE n == Cardinality(Existing)
  <2>1. /\ n \in Nat /\ created \in [1 .. n -> Existing]
        /\ \A i, k \in 1 .. n : i # k => created[i] # created[k]
    BY FS_CardinalityType DEF ViewInit, SetToSeqs
  <2>2. IsFiniteSet(1 .. n) /\ Cardinality(1 .. n) = n
    BY <2>1, FS_Interval
  <2>3. created \in Seq(Jobs)
    <3>1. created \in [1 .. n -> Jobs]
      BY <2>1
    <3> QED
      BY <2>1, <3>1, IsASeq
  <2>4. IsInjective(created)
    BY <2>1 DEF IsInjective
  <2>5. created \in Injection(1 .. n, Existing)
    BY <2>1, <2>4 DEF Injection
  <2>6. created \in Surjection(1 .. n, Existing)
    BY <2>2, <2>5, FS_Injection
  <2>7. \A j \in Existing : \E i \in 1 .. n : created[i] = j
    BY <2>6 DEF Surjection
  <2>8. DOMAIN created = 1 .. n
    BY <2>1
  <2>9. \A j \in Existing : j \in ToSet(created)
    BY <2>7, <2>8, Members
  <2>10. \A j \in Jobs : jobState[j] # "absent" => j \in Existing
    BY DEF ViewInit, Init
  <2> QED
    BY <2>3, <2>4, <2>9, <2>10
<1>4. ASSUME NEW j \in Jobs PROVE Ordered(j)
  <2>1. CASE j \in Existing /\ Trigger[j] = NoJob
    <3>1. recency[j] = <<1>> /\ \A k \in Ticks : runs[j][k] = IF k = 1 THEN "PENDING" ELSE "none"
      BY <2>1 DEF ViewInit, Init, FirstRun
    <3>2. 1 \in Ticks /\ {k \in Ticks : runs[j][k] # "none"} = {1}
      BY <3>1 DEF Ticks
    <3>3. <<1>> \in Seq(Ticks) /\ IsInjective(<<1>>) /\ ToSet(<<1>>) = {1}
      BY <3>2 DEF IsInjective, ToSet
    <3> QED
      BY <3>1, <3>2, <3>3 DEF Ordered
  <2>2. CASE ~(j \in Existing /\ Trigger[j] = NoJob)
    <3>1. recency[j] = <<>> /\ \A k \in Ticks : runs[j][k] = "none"
      BY <2>2 DEF ViewInit, Init, FirstRun
    <3>2. <<>> \in Seq(Ticks) /\ IsInjective(<<>>) /\ ToSet(<<>>) = {}
      BY DEF IsInjective, ToSet
    <3> QED
      BY <3>1, <3>2 DEF Ordered
  <2> QED
    BY <2>1, <2>2
<1>5. ViewTypeOK
  BY <1>1, <1>2, <1>3, <1>4 DEF ViewTypeOK, Ordered
<1> QED
  BY <1>2, <1>5 DEF ViewInv, StatusUnderWay, StatusWasTrue, ListUnderWay, PagesComplete

----------------------------------------------------------------------------
(* Every step keeps it *)

\* The rows do not change: the request may.
Reads == UNCHANGED <<vars, created, recency>>

\* A request only reads.
LEMMA ReadsKeep ==
  ASSUME Reads
  PROVE  /\ \A j \in Jobs : Ordered(j) => Ordered(j)'
         /\ \A j \in Jobs : UNCHANGED <<jobState[j], runs[j], recency[j], JobStatus(j)>>
         /\ Committed' = Committed /\ \A i : Rank(i)' = Rank(i)
         /\ \A n : Page(n)' = Page(n)
         /\ TypeOK => TypeOK'
<1>1. UNCHANGED <<jobState, runs, created, recency>>
  BY DEF Reads, vars
<1>2. TypeOK => TypeOK'
  BY DEF Reads, vars, TypeOK
<1> QED
  BY <1>1, <1>2 DEF Ordered, JobStatus, Committed, Rank, Page

\* A step of the writers adds rows only at new places of the list.
LEMMA WriteRows ==
  ASSUME IInv, ViewInv, Write
  PROVE  /\ NothingLost /\ UNCHANGED created
         /\ \A j \in Jobs : Ordered(j)'
         /\ \A i \in Committed : i \in Committed' /\ Rank(i) <= Rank(i)' /\ Rank(i)' \in Nat
<1>1. NothingLost /\ OneMoves
  BY WriterSteps DEF Write
<1>2. UNCHANGED created
  BY DEF Write
<1>3. ASSUME NEW j \in Jobs PROVE Ordered(j)'
  <2>1. Ordered(j)
    BY DEF ViewInv, ViewTypeOK, Ordered
  <2>2. recency'[j] \in Orders(j)
    BY DEF Write
  <2> QED
    BY <1>1, <2>1, <2>2, OrderKept
<1>4. ASSUME NEW i \in Committed
      PROVE  i \in Committed' /\ Rank(i) <= Rank(i)' /\ Rank(i)' \in Nat
  <2>0. created \in Seq(Jobs)
    BY DEF ViewInv, ViewTypeOK
  <2>1. \A k \in Committed : created[k] \in Jobs
    BY <2>0, CommittedRows
  <2>2. Committed \subseteq Committed'
    BY <1>1, <1>2, <2>1 DEF Committed, NothingLost
  <2>3. IsFiniteSet(Committed')
    <3>1. DOMAIN created = 1 .. Len(created) /\ Len(created) \in Nat
      BY <2>0, LenProperties
    <3>2. IsFiniteSet(1 .. Len(created))
      BY <3>1, FS_Interval
    <3>3. Committed' \in SUBSET (1 .. Len(created))
      BY <1>2, <3>1 DEF Committed
    <3> QED
      BY <3>2, <3>3, FS_Subset
  <2>4. Rank(i) = Place(Committed, i) /\ Rank(i)' = Place(Committed', i)
    BY DEF Rank, Place
  <2>5. PICK C : C = Committed
    OBVIOUS
  <2>6. PICK D : D = Committed'
    OBVIOUS
  <2>7. Place(C, i) <= Place(D, i) /\ Place(D, i) \in Nat
    BY <2>2, <2>3, <2>5, <2>6, PlaceGrows
  <2> QED
    BY <2>2, <2>4, <2>5, <2>6, <2>7
<1> QED
  BY <1>1, <1>2, <1>3, <1>4

\* A step of the writers keeps the invariant.
LEMMA WriteInv ==
  ASSUME IInv, ViewInv, Write
  PROVE  ViewInv'
<1>0. IInv' /\ TypeOK' /\ TypeOK
  BY NextInv DEF Write, IInv
<1>1. /\ NothingLost /\ UNCHANGED created
      /\ \A j \in Jobs : Ordered(j)'
      /\ \A i \in Committed : i \in Committed' /\ Rank(i) <= Rank(i)' /\ Rank(i)' \in Nat
  BY WriteRows
<1>2. /\ req \in {Idle} \union StatusRequests \union ListRequests
      /\ created \in Seq(Jobs) /\ IsInjective(created)
      /\ \A j \in Jobs : Ordered(j)
      /\ StatusUnderWay /\ StatusWasTrue /\ ListUnderWay /\ PagesComplete
  BY DEF ViewInv, ViewTypeOK, Ordered
<1>3. \A j \in Jobs : jobState'[j] # "absent" => j \in ToSet(created)
  BY DEF Write
<1>4. CASE req.kind # "status"
  <2>1. req' = req
    BY <1>4 DEF Write
  <2>2. ViewTypeOK'
    BY <1>0, <1>1, <1>2, <1>3, <2>1 DEF ViewTypeOK, Ordered
  <2>3. ListUnderWay'
    <3> SUFFICES ASSUME req.kind = "list", NEW j \in req.known \ req.got
                 PROVE  \E i \in Committed' : created[i] = j /\ req.page * PageSize < Rank(i)'
      BY <1>1, <1>2, <2>1 DEF ListUnderWay
    <3>1. PICK i \in Committed : created[i] = j /\ req.page * PageSize < Rank(i)
      BY <1>2 DEF ListUnderWay
    <3>2. i \in Committed' /\ Rank(i) <= Rank(i)' /\ Rank(i)' \in Nat
      BY <1>1
    <3>3. Rank(i) \in Nat
      BY <1>2, CommittedRows
    <3>4. req.page * PageSize \in Nat
      <4>1. req \in ListRequests
        BY <1>2, RequestKinds
      <4>2. req.page \in Nat /\ PageSize \in Nat
        BY <4>1, ViewAssumption DEF ListRequests
      <4> QED
        BY <4>2
    <3>5. req.page * PageSize < Rank(i)'
      BY <3>1, <3>2, <3>3, <3>4
    <3> QED
      BY <3>1, <3>2, <3>5
  <2>4. StatusUnderWay' /\ StatusWasTrue' /\ PagesComplete'
    BY <1>2, <1>4, <2>1 DEF StatusUnderWay, StatusWasTrue, PagesComplete
  <2> QED
    BY <2>2, <2>3, <2>4 DEF ViewInv
<1>5. CASE req.kind = "status"
  <2> DEFINE j == req.job
             now == ToExternalJobStatus(jobState'[j], LatestRun(runs'[j], recency'[j]))
  <2>1. req \in StatusRequests /\ j \in Jobs /\ req.state \in JobState
    BY <1>2, <1>5, RequestKinds DEF StatusRequests
  <2>2. req' = [req EXCEPT !.seen = @ \union {now}]
    BY <1>5 DEF Write
  <2>3. now = JobStatus(j)'
    BY <2>1, <2>2 DEF JobStatus
  <2>4. jobState'[j] \in JobState \ {"absent"} /\ jobState[j] # "absent" /\ req.state # "absent"
    BY <1>0, <1>1, <1>2, <1>5, <2>1 DEF StatusUnderWay, NothingLost, TypeOK
  <2>5. now \in External
    <3>1. LatestRun(runs'[j], recency'[j]) \in Executing \union Terminal \union {"none"}
      <4>1. recency'[j] # <<>> => LatestRun(runs'[j], recency'[j]) = runs'[j][Last(recency'[j])]
        BY DEF LatestRun
      <4>2. recency'[j] # <<>> => Last(recency'[j]) \in Ticks
        <5>1. recency'[j] \in Seq(Ticks)
          BY <1>1, <2>1 DEF Ordered
        <5>2. PICK t : t = recency'[j]
          OBVIOUS
        <5>3. t # <<>> => Len(t) \in 1 .. Len(t)
          BY <5>1, <5>2, EmptySeq, LenProperties
        <5>4. t # <<>> => t[Len(t)] \in Ticks
          BY <5>1, <5>2, <5>3, ElementOfSeq
        <5> QED
          BY <5>2, <5>4 DEF Last
      <4>3. recency'[j] = <<>> => LatestRun(runs'[j], recency'[j]) = "none"
        BY DEF LatestRun
      <4> QED
        BY <1>0, <2>1, <4>1, <4>2, <4>3 DEF TypeOK
    <3> QED
      BY <2>4, <3>1, Tables DEF ToExternalJobStatus
  <2>6. recency'[j] = <<>> => recency[j] = <<>>
    <3> SUFFICES ASSUME recency'[j] = <<>> PROVE recency[j] = <<>>
      OBVIOUS
    <3>1. \A k \in Ticks : runs'[j][k] = "none"
      <4>1. ToSet(<<>>) = {}
        BY DEF ToSet
      <4> QED
        BY <1>1, <2>1, <4>1 DEF Ordered
    <3>2. \A k \in Ticks : runs[j][k] = "none"
      BY <1>1, <2>1, <3>1 DEF NothingLost
    <3> QED
      BY <1>2, <2>1, <3>2, Newest
  <2> HIDE DEF now
  <2>7. /\ req'.kind = "status" /\ req'.job = j /\ req'.state = req.state
        /\ req'.seen = req.seen \union {now} /\ req'.answer = req.answer
        /\ req' \in StatusRequests
    BY <2>1, <2>2, <2>5, <1>5 DEF StatusRequests
  <2>8. StatusUnderWay'
    BY <1>2, <1>5, <2>3, <2>4, <2>6, <2>7 DEF StatusUnderWay
  <2>9. ViewTypeOK'
    BY <1>0, <1>1, <1>2, <1>3, <2>7 DEF ViewTypeOK, Ordered
  <2>10. StatusWasTrue' /\ ListUnderWay' /\ PagesComplete'
    BY <2>7 DEF StatusWasTrue, ListUnderWay, PagesComplete
  <2> QED
    BY <2>8, <2>9, <2>10 DEF ViewInv
<1> QED
  BY <1>4, <1>5

\* The begin of a create stamps a row nobody sees.
LEMMA CreateBeginsInv ==
  ASSUME IInv, ViewInv, NEW x \in Jobs, CreateBegins(x)
  PROVE  ViewInv'
<1>0. /\ jobState[x] = "absent" /\ x \notin ToSet(created) /\ created' = Append(created, x)
      /\ UNCHANGED <<vars, recency, req>>
  BY DEF CreateBegins
<1>1. UNCHANGED <<jobState, runs, recency, req>>
  BY <1>0 DEF vars
<1>2. /\ created \in Seq(Jobs) /\ IsInjective(created) /\ TypeOK
      /\ \A j \in Jobs : Ordered(j)
      /\ \A j \in Jobs : jobState[j] # "absent" => j \in ToSet(created)
      /\ req \in {Idle} \union StatusRequests \union ListRequests
  BY DEF ViewInv, ViewTypeOK, Ordered
<1>3. /\ created' \in Seq(Jobs) /\ IsInjective(created') /\ ToSet(created') = ToSet(created) \union {x}
  BY <1>0, <1>2, AppendNew
<1>4. TypeOK'
  BY <1>0, <1>2 DEF vars, TypeOK
<1>5. ViewTypeOK'
  <2>1. \A j \in Jobs : Ordered(j)'
    BY <1>1, <1>2 DEF Ordered
  <2> QED
    BY <1>1, <1>2, <1>3, <1>4, <2>1 DEF ViewTypeOK, Ordered
<1>6. Committed' = Committed /\ \A i \in Committed : created'[i] = created[i]
  <2>1. /\ DOMAIN created = 1 .. Len(created) /\ Len(created) \in Nat
        /\ DOMAIN created' = 1 .. Len(created) + 1 /\ created'[Len(created) + 1] = x
        /\ \A i \in 1 .. Len(created) : created'[i] = created[i]
    BY <1>0, <1>2, LenProperties, AppendProperties
  <2>2. \A i \in 1 .. Len(created) + 1 : i \in 1 .. Len(created) \/ i = Len(created) + 1
    BY <2>1
  <2>3. \A i \in 1 .. Len(created) : i \in 1 .. Len(created) + 1
    BY <2>1
  <2>4. \A i : i \in Committed' <=> i \in Committed
    BY <1>0, <1>1, <2>1, <2>2, <2>3 DEF Committed
  <2>5. Committed \subseteq 1 .. Len(created)
    BY <2>1 DEF Committed
  <2> QED
    BY <2>1, <2>4, <2>5
<1>7. \A i : Rank(i)' = Rank(i)
  BY <1>6 DEF Rank
<1>8. ListUnderWay'
  BY <1>1, <1>6, <1>7 DEF ViewInv, ListUnderWay
<1>9. StatusUnderWay' /\ StatusWasTrue' /\ PagesComplete'
  BY <1>1 DEF ViewInv, StatusUnderWay, StatusWasTrue, PagesComplete, JobStatus
<1> QED
  BY <1>5, <1>8, <1>9 DEF ViewInv

\* The steps of a request keep it.
LEMMA ReadInv ==
  ASSUME IInv, ViewInv,
         \/ \E j \in Jobs : StatusReadsJob(j)
         \/ StatusReadsRuns \/ ListPage \/ Replied \/ UNCHANGED viewVars
  PROVE  ViewInv'
<1> USE ViewAssumption
<1>0. Reads
  BY DEF Reads, StatusReadsJob, StatusReadsRuns, ListPage, Replied, viewVars
<1>1. /\ created \in Seq(Jobs) /\ IsInjective(created) /\ TypeOK
      /\ \A j \in Jobs : Ordered(j)
      /\ \A j \in Jobs : jobState[j] # "absent" => j \in ToSet(created)
      /\ req \in {Idle} \union StatusRequests \union ListRequests
  BY DEF ViewInv, ViewTypeOK, Ordered
<1>2. /\ TypeOK' /\ \A j \in Jobs : Ordered(j)'
      /\ \A j \in Jobs : UNCHANGED <<jobState[j], runs[j], recency[j], JobStatus(j)>>
      /\ Committed' = Committed /\ \A i : Rank(i)' = Rank(i)
      /\ created' = created
  BY <1>0, <1>1, ReadsKeep DEF Reads
<1>3. ASSUME req' \in {Idle} \union StatusRequests \union ListRequests PROVE ViewTypeOK'
  BY <1>1, <1>2, <1>3 DEF ViewTypeOK, Ordered
<1>4. ASSUME NEW j \in Jobs, StatusReadsJob(j) PROVE ViewInv'
  <2>1. jobState[j] \in JobState \ {"absent"}
    BY <1>1, <1>4 DEF StatusReadsJob, TypeOK
  <2>2. req' = [kind |-> "status", job |-> j, state |-> jobState[j], seen |-> {JobStatus(j)},
                answer |-> "none"]
    BY <1>4 DEF StatusReadsJob
  <2>3. /\ JobStatus(j) \in External
        /\ recency[j] = <<>> => JobStatus(j) = JobStateMapping[jobState[j]]
    BY <1>1, <2>1, StatusShown DEF JobStatus
  <2>4. /\ req'.kind = "status" /\ req'.job = j /\ req'.state = jobState[j]
        /\ req'.seen = {JobStatus(j)} /\ req' \in StatusRequests
    BY <2>1, <2>2, <2>3 DEF StatusRequests
  <2>5. StatusUnderWay'
    BY <1>2, <2>1, <2>3, <2>4 DEF StatusUnderWay
  <2>6. StatusWasTrue' /\ ListUnderWay' /\ PagesComplete'
    BY <2>4 DEF StatusWasTrue, ListUnderWay, PagesComplete
  <2> QED
    BY <1>3, <2>4, <2>5, <2>6 DEF ViewInv
<1>5. CASE StatusReadsRuns
  <2> DEFINE j == req.job
             answer == ToExternalJobStatus(req.state, LatestRun(runs[j], recency[j]))
  <2>1. req \in StatusRequests /\ j \in Jobs /\ req.state \in JobState
    BY <1>1, <1>5, RequestKinds DEF StatusReadsRuns, StatusRequests
  <2>2. /\ jobState[j] \in JobState \ {"absent"} /\ req.state \in JobState \ {"absent"}
        /\ JobStatus(j) \in req.seen
        /\ recency[j] = <<>> => JobStateMapping[req.state] \in req.seen
    BY <1>1, <1>5, <2>1 DEF StatusReadsRuns, ViewInv, StatusUnderWay, TypeOK
  <2>3. answer \in External /\ answer \in req.seen
    <3>1. /\ answer \in External
          /\ recency[j] = <<>> => answer = JobStateMapping[req.state]
          /\ recency[j] # <<>> => answer = ToExternal[LatestRun(runs[j], recency[j])]
      BY <1>1, <2>1, <2>2, StatusShown
    <3>2. recency[j] # <<>> => JobStatus(j) = ToExternal[LatestRun(runs[j], recency[j])]
      BY <1>1, <2>1, <2>2, StatusShown DEF JobStatus
    <3> QED
      BY <2>2, <3>1, <3>2
  <2>4. req' = [req EXCEPT !.kind = "answered", !.answer = answer]
    BY <1>5 DEF StatusReadsRuns
  <2> HIDE DEF answer
  <2>5. /\ req'.kind = "answered" /\ req'.answer = answer /\ req'.seen = req.seen
        /\ req' \in StatusRequests
    BY <2>1, <2>3, <2>4 DEF StatusRequests
  <2>6. StatusWasTrue'
    BY <2>3, <2>5 DEF StatusWasTrue
  <2>7. StatusUnderWay' /\ ListUnderWay' /\ PagesComplete'
    BY <2>5 DEF StatusUnderWay, ListUnderWay, PagesComplete
  <2> QED
    BY <1>3, <2>5, <2>6, <2>7 DEF ViewInv
<1>6. CASE ListPage
  <2> DEFINE n == IF req = Idle THEN 1 ELSE req.page + 1
             got == IF req = Idle THEN {} ELSE req.got
             known == IF req = Idle THEN {created[i] : i \in Committed} ELSE req.known
  <2>1. /\ req = Idle \/ (req.kind = "list" /\ req \in ListRequests /\ req.page # 0)
        /\ req' = [kind |-> IF Cardinality(Page(n)) < PageSize THEN "listed" ELSE "list", page |-> n,
                   got |-> Page(n) \union got, known |-> known]
    <3>1. req.kind \in {"idle", "list"}
      BY <1>6 DEF ListPage
    <3>2. req = Idle \/ (req.kind = "list" /\ req \in ListRequests)
      BY <1>1, <3>1, RequestKinds
    <3>3. req.kind = "list" => req.page # 0
      BY DEF ViewInv, ListUnderWay
    <3> QED
      BY <1>6, <3>2, <3>3 DEF ListPage
  <2>2. n \in Nat \ {0}
    BY <2>1 DEF ListRequests
  <2>3. \A i \in Committed : created[i] \in Jobs /\ Rank(i) \in Nat \ {0}
    BY <1>1, CommittedRows
  <2>4. got \subseteq Jobs /\ known \subseteq Jobs /\ Page(n) \subseteq Jobs
    <3>1. Page(n) \subseteq Jobs
      BY <2>3 DEF Page
    <3>2. got \subseteq Jobs /\ known \subseteq Jobs
      BY <2>1, <2>3 DEF ListRequests
    <3> QED
      BY <3>1, <3>2
  <2>5. ASSUME NEW j \in known \ got
        PROVE  \E i \in Committed : created[i] = j /\ (n - 1) * PageSize < Rank(i)
    <3>1. CASE req = Idle
      <4>1. n = 1 /\ (n - 1) * PageSize = 0
        BY <3>1, PageLimits
      <4>2. PICK i \in Committed : created[i] = j
        BY <2>5, <3>1
      <4>3. 0 < Rank(i)
        BY <2>3, <4>2
      <4> QED
        BY <4>1, <4>2, <4>3
    <3>2. CASE req # Idle
      <4>1. req.kind = "list" /\ req \in ListRequests /\ req.page \in Nat
        BY <2>1, <3>2 DEF ListRequests
      <4>2. n - 1 = req.page
        BY <3>2, <4>1
      <4>3. PICK i \in Committed : created[i] = j /\ req.page * PageSize < Rank(i)
        BY <2>5, <3>2, <4>1 DEF ViewInv, ListUnderWay
      <4> QED
        BY <4>2, <4>3
    <3> QED
      BY <3>1, <3>2
  <2> HIDE DEF n, got, known
  <2>6. ASSUME NEW j \in known \ (Page(n) \union got)
        PROVE  \E i \in Committed : created[i] = j /\ n * PageSize < Rank(i)
    <3>1. PICK i \in Committed : created[i] = j /\ (n - 1) * PageSize < Rank(i)
      BY <2>5
    <3>2. ~(Rank(i) <= n * PageSize)
      BY <3>1 DEF Page
    <3>3. n * PageSize < Rank(i)
      BY <2>2, <2>3, <3>2, PageLimits
    <3> QED
      BY <3>1, <3>3
  <2>7. /\ req'.kind = IF Cardinality(Page(n)) < PageSize THEN "listed" ELSE "list"
        /\ req'.page = n /\ req'.got = Page(n) \union got /\ req'.known = known
        /\ req' \in ListRequests
    BY <2>1, <2>2, <2>4 DEF ListRequests
  <2>8. ListUnderWay'
    <3> SUFFICES ASSUME NEW j \in known \ (Page(n) \union got)
                 PROVE  \E i \in Committed : created[i] = j /\ n * PageSize < Rank(i)
      BY <1>2, <2>2, <2>7 DEF ListUnderWay
    <3> QED
      BY <2>6
  <2>9. PagesComplete'
    <3> SUFFICES ASSUME Cardinality(Page(n)) < PageSize, NEW j \in known \ (Page(n) \union got)
                 PROVE  FALSE
      BY <2>7 DEF PagesComplete
    <3>1. PICK i \in Committed : created[i] = j /\ n * PageSize < Rank(i)
      BY <2>6
    <3>2. Rank(i) <= n * PageSize
      BY <1>1, <2>2, LastPage
    <3>3. Rank(i) \in Nat /\ n * PageSize \in Nat
      BY <2>2, <2>3, PageLimits
    <3> QED
      BY <3>1, <3>2, <3>3
  <2>10. StatusUnderWay' /\ StatusWasTrue'
    BY <2>7 DEF StatusUnderWay, StatusWasTrue
  <2> QED
    BY <1>3, <2>7, <2>8, <2>9, <2>10 DEF ViewInv
<1>7. CASE Replied
  <2>1. req' = Idle /\ req'.kind = "idle"
    BY <1>7 DEF Replied, Idle
  <2> QED
    BY <1>3, <2>1 DEF ViewInv, StatusUnderWay, StatusWasTrue, ListUnderWay, PagesComplete
<1>8. CASE UNCHANGED viewVars
  <2>1. req' = req
    BY <1>8 DEF viewVars
  <2>2. ViewTypeOK'
    BY <1>1, <1>3, <2>1
  <2>3. ListUnderWay'
    BY <1>2, <2>1 DEF ViewInv, ListUnderWay
  <2>4. StatusUnderWay'
    <3> SUFFICES ASSUME req.kind = "status" PROVE StatusUnderWay'
      BY <2>1 DEF StatusUnderWay
    <3>1. req.job \in Jobs
      BY <1>1, RequestKinds DEF StatusRequests
    <3> QED
      BY <1>2, <2>1, <3>1 DEF ViewInv, StatusUnderWay
  <2>5. StatusWasTrue' /\ PagesComplete'
    BY <2>1 DEF ViewInv, StatusWasTrue, PagesComplete
  <2> QED
    BY <2>2, <2>3, <2>4, <2>5 DEF ViewInv
<1> QED
  BY <1>4, <1>5, <1>6, <1>7, <1>8

----------------------------------------------------------------------------
(* The theorems *)

\* Reading changes nothing: every behaviour with readers is one of Continuation,
\* and its invariant holds.
THEOREM ReadersOnlyRead == ViewSpec => Spec
<1>1. ViewInit => Init
  BY DEF ViewInit
<1>2. [ViewNext]_viewVars => [Next]_vars
  BY DEF ViewNext, viewVars, Write, CreateBegins, StatusReadsJob, StatusReadsRuns, ListPage, Replied
<1> QED
  BY <1>1, <1>2, PTL DEF ViewSpec, Spec

\* The inductive invariant holds in every reachable state.
THEOREM ViewInvariance == ViewSpec => []ViewInv
<1>1. IInv /\ ViewInv /\ [ViewNext]_viewVars => ViewInv'
  <2> SUFFICES ASSUME IInv, ViewInv, [ViewNext]_viewVars PROVE ViewInv'
    OBVIOUS
  <2> QED
    BY WriteInv, CreateBeginsInv, ReadInv DEF ViewNext
<1>2. ViewSpec => []IInv
  BY ReadersOnlyRead, ContinuationInvariance, PTL
<1> QED
  BY <1>1, <1>2, ViewInitInv, PTL DEF ViewSpec

\* Every row has one place in the lists, every run one place in its job's order,
\* and a request its type, whatever writers and readers do.
THEOREM ViewTypeCorrect == ViewSpec => []ViewTypeOK
<1>1. ViewInv => ViewTypeOK
  BY DEF ViewInv
<1> QED
  BY <1>1, ViewInvariance, PTL

\* task.status answers a status the job had during the request, although it reads
\* the job and its newest run by two statements.
THEOREM StatusIsTruthful == ViewSpec => []StatusWasTrue
<1>1. ViewInv => StatusWasTrue
  BY DEF ViewInv
<1> QED
  BY <1>1, ViewInvariance, PTL

\* OFFSET pagination misses no job that was there when the client began, for any
\* page size and any jobs added, in any order of commits, between two pages.
THEOREM PagesMissNothing == ViewSpec => []PagesComplete
<1>1. ViewInv => PagesComplete
  BY DEF ViewInv
<1> QED
  BY <1>1, ViewInvariance, PTL

\* The status filter of task.list and the status it shows agree on every job.
THEOREM FilterAgrees == ViewSpec => []FoundUnderItsStatus
<1>1. ViewInv => FoundUnderItsStatus
  BY FilterMatches DEF ViewInv, ViewTypeOK, Ordered
<1> QED
  BY <1>1, ViewInvariance, PTL
=============================================================================
