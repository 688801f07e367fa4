---------------------------- MODULE MCLlmActions ----------------------------
(* The instance of LlmActions for TLC. *)
EXTENDS LlmActions, TLC

CONSTANTS u1, u2, p1, r1, r2, r3, r4, r5

\* u1's r1 is triggered by p1 and reads its result, u2's r3 names u1's r1, r2
\* and u2's r4 bring their text, r5 is triggered by p1 and names no input.
Owners == [r \in AllRuns |-> IF r \in {r3, r4} THEN u2 ELSE u1]
Inputs == [r \in Runs |-> IF r = r1 THEN p1 ELSE IF r = r3 THEN r1
                          ELSE IF r = r5 THEN "none" ELSE "text"]
Causes == [r \in Runs |-> IF r \in {r1, r5} THEN p1 ELSE NoRun]

\* A month ends after the second day.
Months == [d \in Days |-> IF d = 3 THEN 3 ELSE 1]

Symmetry == Permutations(Workers)
=============================================================================
