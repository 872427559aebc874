------------------------------- MODULE MCMesh -------------------------------
(* TLC instances of Mesh: nodes in a line, the outer ones out of range.      *)
EXTENDS Mesh, TLC

CONSTANTS a, b, c

Line == {<<a, b>>, <<b, a>>, <<b, c>>, <<c, b>>}
OneSender == a :> 2 @@ b :> 0 @@ c :> 0
TwoSenders == a :> 1 @@ b :> 1 @@ c :> 0
NoneReopens == [n \in Node |-> 0]
MiddleReopens == [NoneReopens EXCEPT ![b] = 1]
=============================================================================
