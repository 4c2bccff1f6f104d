------------------------- MODULE MCSyncRunDispatch --------------------------
(***************************************************************************)
(* SyncRunDispatch on small instances.  Callers are interchangeable, and   *)
(* so are workers and triggers.                                            *)
(***************************************************************************)
EXTENDS SyncRunDispatch, TLC

Symmetry == Permutations(Caller) \cup Permutations(Worker) \cup Permutations(Trigger)
=============================================================================
