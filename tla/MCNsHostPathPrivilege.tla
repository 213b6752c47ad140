----------------------- MODULE MCNsHostPathPrivilege -----------------------
(* Instances of NsHostPathPrivilege for TLC.                               *)
EXTENDS NsHostPathPrivilege

CONSTANTS p1

OnePod == {p1}
=============================================================================
