-------------------------- MODULE MCLoginBackoff --------------------------
(* LoginBackoff for TLC: attempts are interchangeable.                     *)
EXTENDS LoginBackoff, TLC

Symmetry == Permutations(Attempt)
=============================================================================
