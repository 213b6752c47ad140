------------------------- MODULE MCPriorityClasses -------------------------
(* Instances of PriorityClasses for TLC.                                   *)
EXTENDS PriorityClasses, TLC

CONSTANTS r1, r2, r3

ThreeReplicas == {r1, r2, r3}

SecondClass == {2}
=============================================================================
