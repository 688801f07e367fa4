----------------------------- MODULE MCAdmission -----------------------------
(* The instance of Admission for TLC. *)
EXTENDS Admission, TLC

CONSTANTS s1, u1, u2, k1, q1, q2, q3, q4, q5

OneServer == [q \in Requests |-> s1]

\* q4 retries q1, q5 is the operator's, q2 and q3 are on their own.
RetryKeys == [q \in Requests |-> IF q \in {q1, q4} THEN k1 ELSE NoKey]
TwoUsers == [q \in Requests |-> IF q = q5 THEN u2 ELSE u1]

\* A create and its retry differ in nothing, neither do q2 and q3.
Symmetry == Permutations({q1, q4}) \union Permutations({q2, q3})
=============================================================================
