-------------------------- MODULE MCProjectionRuns --------------------------
(* Small instances of ProjectionRuns for TLC: the job slots are interchangeable. *)
EXTENDS ProjectionRuns, TLC

Symmetry == Permutations(Worker)
=============================================================================
