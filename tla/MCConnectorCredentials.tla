---------------------- MODULE MCConnectorCredentials ------------------------
(***************************************************************************)
(* ConnectorCredentials on a small instance.  Service processes are        *)
(* interchangeable, and so are slots.                                      *)
(***************************************************************************)
EXTENDS ConnectorCredentials, TLC

Symmetry == Permutations(Process) \cup Permutations(Slot)
=============================================================================
