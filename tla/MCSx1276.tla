------------------------------ MODULE MCSx1276 ------------------------------
(* TLC instances of Sx1276.                                                  *)
EXTENDS Sx1276
=============================================================================
