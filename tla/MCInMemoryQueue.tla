-------------------------- MODULE MCInMemoryQueue ---------------------------
(***************************************************************************)
(* InMemoryQueue on small instances.  Claim loops are interchangeable, and *)
(* so are jobs: nothing in the module tells two of them apart.             *)
(***************************************************************************)
EXTENDS InMemoryQueue, TLC

Symmetry == Permutations(Job) \cup Permutations(Claimer)
=============================================================================
