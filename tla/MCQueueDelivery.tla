-------------------------- MODULE MCQueueDelivery ---------------------------
(***************************************************************************)
(* QueueDelivery on small instances.  Slots are interchangeable.           *)
(***************************************************************************)
EXTENDS QueueDelivery, TLC

Symmetry == Permutations(Slot)
=============================================================================
