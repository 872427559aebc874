----------------------------- MODULE MCRunicast -----------------------------
(* TLC instance of Runicast: a sends, b answers, and both share the pool     *)
(* with other modules.                                                       *)
EXTENDS Runicast, TLC

CONSTANTS a, b

MCNode == {a, b}
\* 5 packets: the 2-bit identifier wraps and is used again.
MCWrap == a :> 5 @@ b :> 0
MCResend == a :> 4 @@ b :> 0
MCTwoWay == a :> 2 @@ b :> 1
=============================================================================
