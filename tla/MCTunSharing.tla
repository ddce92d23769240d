------------------------------ MODULE MCTunSharing ------------------------------
(***************************************************************************)
(* TunSharing for TLC.  The services are alike: nothing orders them, and    *)
(* every invariant quantifies over all of them.                             *)
(***************************************************************************)
EXTENDS TunSharing, TLC

Symmetry == Permutations(Service)
=============================================================================
