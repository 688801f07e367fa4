--------------------------- MODULE MCContinuation ---------------------------
(* Instances of Continuation for TLC. *)
EXTENDS Continuation, TLC

CONSTANTS root, child, leaf

\* root <- child <- leaf: a chain of three jobs.
Chain == [j \in Jobs |-> IF j = root THEN NoJob ELSE IF j = child THEN root ELSE child]

\* The child runs on success only, the leaf always.
Predicates == [j \in Jobs |-> IF j = leaf THEN "ANY" ELSE "SUCCEEDED"]

\* The last tick is inserted and not run: a bound on the run with two consumers.
Horizon == runs[root][MaxTicks] = "none"

Symmetry == Permutations(Consumers)
=============================================================================
