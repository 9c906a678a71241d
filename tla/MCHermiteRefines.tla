-------------------------- MODULE MCHermiteRefines --------------------------
(***************************************************************************)
(* HermiteRefines for TLC.                                                 *)
(***************************************************************************)
EXTENDS HermiteRefines

Symmetry == Permutations(Particle)
=============================================================================
