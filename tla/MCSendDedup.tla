----------------------------- MODULE MCSendDedup -----------------------------
(* Instances of SendDedup for TLC. *)
EXTENDS SendDedup, TLC

\* Runs are interchangeable.
Symmetry == Permutations(Runs)
=============================================================================
