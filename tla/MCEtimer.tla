----------------------------- MODULE MCEtimer ------------------------------
(* Small instances of Etimer. *)
EXTENDS Etimer

CONSTANTS p1, p2, t1, t2

Symmetry == Permutations({p1, p2}) \cup Permutations({t1, t2})
Nudges == {-1, 1}
=============================================================================
