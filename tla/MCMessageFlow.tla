--------------------------- MODULE MCMessageFlow ----------------------------
(* An instance of MessageFlow for model checking: a talks twice, b once, in*)
(* public or in private, and c only listens.                               *)
EXTENDS MessageFlow, TLC

CONSTANTS a, b, c

ThreePeers == {a, b, c}
TwoOneNone == a :> 2 @@ b :> 1 @@ c :> 0
OnlyB == {b}
=============================================================================
