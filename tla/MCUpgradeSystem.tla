--------------------------- MODULE MCUpgradeSystem ---------------------------
(* Instances of UpgradeSystem for TLC.                                     *)
EXTENDS UpgradeSystem, TLC

CONSTANTS p1, r1, r2

OnePV == {p1}
TwoReplicas == {r1, r2}
NoOthers == {}
=============================================================================
