----------------------------- MODULE MCCtimer ------------------------------
(* Small instances of Ctimer. *)
EXTENDS Ctimer

CONSTANTS c1, c2

Symmetry == Permutations({c1, c2})
=============================================================================
