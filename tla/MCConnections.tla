---------------------------- MODULE MCConnections ----------------------------
(* Instances of Connections for TLC. *)
EXTENDS Connections, TLC

\* Executions are interchangeable.
Symmetry == Permutations(Workers)
=============================================================================
