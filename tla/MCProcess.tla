----------------------------- MODULE MCProcess -----------------------------
(* Small instances of Process. *)
EXTENDS Process

CONSTANTS a, b, c

TwoStarted == <<a, b>>
ThreeStarted == <<a, b, c>>
=============================================================================
