----------------------------- MODULE MCJobViews -----------------------------
(* The instance of JobViews for TLC. *)
EXTENDS JobViews

CONSTANTS root, child, side

\* root <- child, and a one-shot job of its own.
Chain == [j \in Jobs |-> IF j = child THEN root ELSE NoJob]

Predicates == [j \in Jobs |-> "SUCCEEDED"]

\* The job `side` is there to be listed: nothing is explored after it starts or is
\* cancelled, nor after a second tick once it is there.
SideIdle ==
  /\ side \notin cancelling /\ runs[side][1] \in {"none", "PENDING"}
  /\ side \in ToSet(created) => runs[root][2] = "none"
=============================================================================
