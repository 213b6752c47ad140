------------------------- MODULE MCPVUpdateManager -------------------------
(* Instances of PVUpdateManager for TLC.                                   *)
EXTENDS PVUpdateManager, TLC

CONSTANTS p1, p2

TwoPVs == {p1, p2}
OtherMayFail == {"upgrade", "fail"}
=============================================================================
