----------------------------- MODULE MCHermite -----------------------------
(***************************************************************************)
(* Hermite for TLC: the symmetry of the particles (no definition chooses   *)
(* between particles except among singletons).                             *)
(***************************************************************************)
EXTENDS Hermite

Symmetry == Permutations(Particle)
=============================================================================
