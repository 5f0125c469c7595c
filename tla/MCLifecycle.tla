---------------------------- MODULE MCLifecycle ----------------------------
(* Lifecycle for TLC.  Liveness is checked: no symmetry.                   *)
EXTENDS Lifecycle, TLC
=============================================================================
