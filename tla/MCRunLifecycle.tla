--------------------------- MODULE MCRunLifecycle ---------------------------
(* Instances of RunLifecycle for TLC. *)
EXTENDS RunLifecycle, TLC

\* Worker processes and message slots are interchangeable.
Symmetry == Permutations(Workers) \union Permutations(Msgs)
=============================================================================
