------------------------ MODULE MCProjectionDispatch ------------------------
(* Small instances of ProjectionDispatch for TLC: the job slots are interchangeable. *)
EXTENDS ProjectionDispatch, TLC

Symmetry == Permutations(Worker)
=============================================================================
